---------------------------- MODULE Spec2Model ----------------------------
(***************************************************************************)
(* Rehearsal: the conversation state machine of the App component, its     *)
(* audio/session resources and the playback scheduler.                     *)
(*                                                                         *)
(* The component runs on one event loop.  Every action below is one task   *)
(* of that loop: a user click, the continuation of an async handler after  *)
(* one of its awaits, or a callback of the live session or of the audio    *)
(* graph.  A handler that awaits is split at its awaits; the values its    *)
(* closure captured when it was called are kept in its task record.        *)
(*                                                                         *)
(* The specifications share the actions.  Spec is the whole lifecycle from *)
(* construction with an NPC that sends no audio, SpecTeardown the part of  *)
(* it that opens and tears down conversations, with the microphone.        *)
(* SpecCodec and SpecBlob run single samples through the audio codec.     *)
(* The others start in the states Spec reaches when startConversation      *)
(* resolves and look at one part of an Active conversation: SpecPlayback   *)
(* and SpecChunks at the playback scheduler, SpecSpeaking at the chunks of *)
(* the session under the fairness of the platform, SpecPanel at the        *)
(* controls, SpecTranscript, SpecMessage, SpecImage and SpecImageExit at   *)
(* the transcript, SpecHint at the inactivity hint, SpecBestEffort at the  *)
(* failures of the features that may fail, SpecCleanup at a teardown whose *)
(* platform calls fail.  onClose is the callback of a close by the remote  *)
(* endpoint.                                                               *)
(*                                                                         *)
(* An effect runs with the render of the handler that changed what it      *)
(* depends on; a state it sets is rendered before any other task.  The     *)
(* hint and its timer are written by nothing but their own effect and      *)
(* handlers and read by no other handler.                                  *)
(***************************************************************************)
EXTENDS Naturals, Integers, Sequences, FiniteSets, TLC

\* ------------------------------------------------------------------ bounds
\* handleBeginConversation calls whose resources or callbacks are still alive
MaxBegin == 2
\* requests to the generative services in flight at one time
MaxPending == 1
\* audio chunks handed to playAudioChunk over one behaviour
MaxChunks == 2
\* largest duration of one decoded chunk, in clock ticks
MaxDur == 2
\* range of an output context's currentTime
MaxTime == 3
\* generateHint calls in flight at one time
MaxHints == 2
\* entries of the transcript
MaxEntries == 3
\* fragments merged into one entry
MaxText == 2

Slots == 1..MaxBegin
Null == 0

Statuses ==
    {"Idle", "Generating", "Briefing", "Ready", "Active", "Summarizing",
     "PausedForFeedback", "Error"}

\* Scenario.conversationStarter together with openingLine; "none" is null
Scenarios == {"userFirst", "npcFirst"}
\* ConversationResult.taskComplete; "none" is null
Results == {"complete", "incomplete"}
Speakers == {"user", "npc"}

VARIABLES
    \* useState
    status, scenario, transcript, result, error, isNpcSpeaking, isRecording,
    studyCardHint, isStreetViewVisible,
    \* useRef
    liveSessionRef, localStreamRef, mediaStreamSourceRef, scriptProcessorRef,
    inputAudioContextRef, outputAudioContextRef, nextStartTimeRef,
    audioSourcesRef,
    \* the platform: what is open, whoever references it
    openSessions, openStreams, openInCtx, outCtx, ctxTime,
    \* handlers suspended at an await, and callbacks still to come
    begin, genPending, similarPending, summPending, studyPending,
    replayPending, resumeQueue, stoppedPending,
    \* history: the chunks handed to playAudioChunk, the chunks scheduled, and
    \* what was open when handleEndConversation last asked for a summary, kept
    \* until the application is back in Idle
    arrivals, sched, ended,
    \* the inactivity hint: useState hint, inactivityTimerRef and the timer
    \* behind it, and the generateHint calls in flight
    hint, inactivityTimerRef, hintPending,
    \* the timeouts of window.setTimeout that are armed: set, and neither
    \* fired nor cleared
    timeouts,
    \* the generateImage calls in flight, each with its currentIndex
    imagePending,
    \* history: the fragments of one speaker that arrived since the last
    \* other event on the transcript, and the transcript they arrived on
    run,
    \* history: the session that sendRealtimeInput was called on in the last
    \* step, Null if the step sent nothing
    sentTo,
    \* useState translation (the text it is shown under, or none) and the
    \* translateText calls in flight, each with its text
    translation, translatePending,
    \* one PCM sample on its way through decodeAudioData and createBlob
    codec

uiVars ==
    <<status, scenario, transcript, result, error, isNpcSpeaking, isRecording,
      studyCardHint, isStreetViewVisible>>
refVars ==
    <<liveSessionRef, localStreamRef, mediaStreamSourceRef, scriptProcessorRef,
      inputAudioContextRef, outputAudioContextRef, nextStartTimeRef,
      audioSourcesRef>>
worldVars == <<openSessions, openStreams, openInCtx, outCtx, ctxTime>>
taskVars ==
    <<begin, genPending, similarPending, summPending, studyPending,
      replayPending, resumeQueue, stoppedPending>>
histVars == <<arrivals, sched, ended>>
sideVars ==
    <<hint, inactivityTimerRef, timeouts, hintPending, imagePending, run,
      sentTo, translation, translatePending, codec>>
vars == <<uiVars, refVars, worldVars, taskVars, histVars, sideVars>>

Max(a, b) == IF a >= b THEN a ELSE b

\* the condition of the inactivity effect, line 586
Quiet == status = "Active" /\ ~isNpcSpeaking /\ ~isRecording

\* a fragment that holds a whole "*shows image of ...*" directive
Directive == "img"
\* imageRegex of line 526 matches the text
HasDirective(text) == \E i \in 1..Len(text) : text[i] = Directive

\* useState translation is null
NoTranslation == <<>>

\* no sample is in the codec
NoSample == [stage |-> "none", word |-> 0, num |-> 0, den |-> 1, out |-> 0]

\* no fragment has arrived since the last other event
NoRun == [speaker |-> "none", frags |-> <<>>, base |-> <<>>]

\* a handleBeginConversation call that is not running and has left nothing
NoBegin ==
    [pc |-> "none", isContinuing |-> FALSE, scenario |-> "none",
     status |-> "Idle", trEmpty |-> TRUE, isNpcSpeaking |-> FALSE]

\* What a call's closure still decides.  isContinuing is read up to the
\* opening line; status and isNpcSpeaking by the session's callbacks for as
\* long as the session delivers events; scenario and transcript, after the
\* opening line, only by the handleEndConversation that onClose calls when
\* the captured status is Active.
Forget(bf, open) ==
    [b \in Slots |->
        LET t == bf[b]
            starting == t.pc \in {"mic", "session"}
            t1 == IF starting THEN t ELSE [t EXCEPT !.isContinuing = FALSE]
            t2 == IF starting \/ (b \in open /\ t.status = "Active") THEN t1
                  ELSE [t1 EXCEPT !.scenario = "none", !.trEmpty = TRUE]
        IN  IF starting \/ b \in open THEN t2
            ELSE [t2 EXCEPT !.status = "Idle", !.isNpcSpeaking = FALSE]]

\* nothing was open when a summary was last asked for
NoneEnded == [sessions |-> {}, streams |-> {}, inCtx |-> {}, outCtx |-> {}]

\* ---------------------------------------------------------------- teardown
\* The refs, the flags cleanupAudioAndSession writes and the platform state
\* it acts on, as one value, so that the handlers can compose teardown with
\* their own writes.
Cur ==
    [live |-> liveSessionRef, stream |-> localStreamRef,
     source |-> mediaStreamSourceRef, proc |-> scriptProcessorRef,
     inRef |-> inputAudioContextRef, outRef |-> outputAudioContextRef,
     next |-> nextStartTimeRef, sources |-> audioSourcesRef,
     openSessions |-> openSessions, openStreams |-> openStreams,
     openInCtx |-> openInCtx, outCtx |-> outCtx, ctxTime |-> ctxTime,
     isRecording |-> isRecording, isNpcSpeaking |-> isNpcSpeaking,
     stopped |-> stoppedPending]

\* a close that keeps the handle of the closed session
CloseAndKeepHandle(r) ==
    [r EXCEPT !.openSessions = @ \ {r.live}]

\* liveSessionRef.current?.close(); liveSessionRef.current = null
CloseSession(r) ==
    [r EXCEPT !.openSessions = @ \ {r.live}, !.live = Null]

\* localStreamRef.current.getTracks().forEach(track => track.stop())
StopStream(r) ==
    [r EXCEPT !.openStreams = @ \ {r.stream}, !.stream = Null]

\* scriptProcessorRef / mediaStreamSourceRef: disconnect(), then null
DisconnectNodes(r) ==
    [r EXCEPT !.proc = Null, !.source = Null]

\* inputAudioContextRef.current.close(), then null
CloseInput(r) ==
    [r EXCEPT !.openInCtx = @ \ {r.inRef}, !.inRef = Null]

\* a stop-all that also rewinds the schedule
StopAllAndRewind(r) ==
    [r EXCEPT !.stopped = @ + Cardinality(r.sources), !.sources = {},
              !.next = 0]

\* audioSourcesRef.current.forEach(source => source.stop()); clear().
\* A stopped source still owes its onended callback.
StopAllSources(r) ==
    [r EXCEPT !.stopped = @ + Cardinality(r.sources), !.sources = {}]

\* outputAudioContextRef.current.close(), then null
CloseOutput(r) ==
    [r EXCEPT !.outCtx = [c \in Slots |->
                            IF c = r.outRef THEN "none" ELSE r.outCtx[c]],
              !.ctxTime = [c \in Slots |->
                            IF c = r.outRef THEN 0 ELSE r.ctxTime[c]],
              !.outRef = Null]

cleanupAudioAndSession(r) ==
    LET r1 == CloseSession(r)
        r2 == StopStream(r1)
        r3 == DisconnectNodes(r2)
        r4 == CloseInput(r3)
        r5 == StopAllSources(r4)
        r6 == CloseOutput(r5)
    IN  [r6 EXCEPT !.isRecording = FALSE, !.isNpcSpeaking = FALSE]

\* the platform calls of cleanupAudioAndSession, in its order
Steps ==
    {"session", "tracks", "processor", "source", "input", "sources", "output"}

\* cleanupAudioAndSession when the calls named in fails throw (for the
\* close() of a context: return a promise that rejects).  session.close(),
\* the two disconnect() and the source.stop() loop are inside try/catch and
\* a context's rejection goes to .catch: the resource stays as it was, the
\* ref is set to null and the teardown goes on.  track.stop() is called
\* outside any try (lines 148-151): its exception leaves the function, with
\* everything from localStreamRef on untouched.  A source whose stop() threw
\* is forgotten by clear() and owes its onended like a stopped one.
cleanupWithFailures(r, fails) ==
    LET r1 == IF "session" \in fails THEN [r EXCEPT !.live = Null]
              ELSE CloseSession(r)
        r2 == StopStream(r1)
        r3 == DisconnectNodes(r2)
        r4 == IF "input" \in fails THEN [r3 EXCEPT !.inRef = Null]
              ELSE CloseInput(r3)
        r5 == StopAllSources(r4)
        r6 == IF "output" \in fails THEN [r5 EXCEPT !.outRef = Null]
              ELSE CloseOutput(r5)
    IN  IF "tracks" \in fails /\ r1.stream # Null
        THEN [thrown |-> TRUE, r |-> r1]
        ELSE [thrown |-> FALSE,
              r |-> [r6 EXCEPT !.isRecording = FALSE,
                               !.isNpcSpeaking = FALSE]]

\* write a value of the shape of Cur back to the variables
SetRes(r) ==
    /\ liveSessionRef' = r.live
    /\ localStreamRef' = r.stream
    /\ mediaStreamSourceRef' = r.source
    /\ scriptProcessorRef' = r.proc
    /\ inputAudioContextRef' = r.inRef
    /\ outputAudioContextRef' = r.outRef
    /\ nextStartTimeRef' = r.next
    /\ audioSourcesRef' = r.sources
    /\ openSessions' = r.openSessions
    /\ openStreams' = r.openStreams
    /\ openInCtx' = r.openInCtx
    /\ outCtx' = r.outCtx
    /\ ctxTime' = r.ctxTime
    /\ isRecording' = r.isRecording
    /\ isNpcSpeaking' = r.isNpcSpeaking
    /\ stoppedPending' = r.stopped

\* --------------------------------------------------------------- lifecycle
Init ==
    /\ status = "Idle"
    /\ scenario = "none"
    /\ transcript = <<>>
    /\ result = "none"
    /\ error = "none"
    /\ isNpcSpeaking = FALSE
    /\ isRecording = FALSE
    /\ studyCardHint = FALSE
    /\ isStreetViewVisible = FALSE
    /\ liveSessionRef = Null
    /\ localStreamRef = Null
    /\ mediaStreamSourceRef = Null
    /\ scriptProcessorRef = Null
    /\ inputAudioContextRef = Null
    /\ outputAudioContextRef = Null
    /\ nextStartTimeRef = 0
    /\ audioSourcesRef = {}
    /\ openSessions = {}
    /\ openStreams = {}
    /\ openInCtx = {}
    /\ outCtx = [c \in Slots |-> "none"]
    /\ ctxTime = [c \in Slots |-> 0]
    /\ begin = [b \in Slots |-> NoBegin]
    /\ genPending = 0
    /\ similarPending = 0
    /\ summPending = 0
    /\ studyPending = 0
    /\ replayPending = 0
    /\ resumeQueue = <<>>
    /\ stoppedPending = 0
    /\ arrivals = 0
    /\ sched = <<>>
    /\ ended = NoneEnded
    /\ hint = "null"
    /\ inactivityTimerRef = IF Quiet THEN "pending" ELSE "null"
    /\ timeouts = IF inactivityTimerRef = "pending" THEN 1 ELSE 0
    /\ hintPending = 0
    /\ imagePending = {}
    /\ run = NoRun
    /\ sentTo = Null
    /\ translation = NoTranslation
    /\ translatePending = {}
    /\ codec = NoSample

\* requests in flight: scenario, similar scenario, summary, study card, replay
InFlight ==
    genPending + similarPending + summPending + studyPending + replayPending

\* The visibility effect (useEffect on isStreetViewVisible and status) runs
\* right after the render that made its condition true, before any other task.
EffectPending == ~isStreetViewVisible /\ status # "Idle"

\* the inactivity effect has rendered a hint it clears (line 590)
HintEffectPending == hint # "null" /\ ~Quiet

\* the image effect has a directive to take out of the last entry: the
\* conditions of lines 525 and 529
ImageEffectPending ==
    /\ Len(transcript) > 0
    /\ transcript[Len(transcript)].speaker = "npc"
    /\ transcript[Len(transcript)].imageUrl = "undefined"
    /\ HasDirective(transcript[Len(transcript)].text)

\* an effect of the last render has set state: its render comes before any
\* other task
RenderPending == EffectPending \/ HintEffectPending \/ ImageEffectPending

\* a ref and the timeouts armed, as clearInactivityTimer and
\* startInactivityTimer read and leave them
Timer == [ref |-> inactivityTimerRef, armed |-> timeouts]

\* clearInactivityTimer, lines 566-571: clearTimeout of a timeout that has
\* fired does nothing
clearInactivityTimer(t) ==
    IF t.ref # "null"
    THEN [ref |-> "null",
          armed |-> IF t.ref = "pending" THEN t.armed - 1 ELSE t.armed]
    ELSE t

\* a startInactivityTimer that arms without clearing
ArmWithoutCancel(t) == [ref |-> "pending", armed |-> t.armed + 1]

\* startInactivityTimer, lines 573-582
startInactivityTimer(t) ==
    [ref |-> "pending", armed |-> clearInactivityTimer(t).armed + 1]

SetTimer(t) ==
    /\ inactivityTimerRef' = t.ref
    /\ timeouts' = t.armed

\* an effect that arms the timer but never clears it
ArmOnlyEffect(h, rerun) ==
    /\ hint' = h
    /\ SetTimer(IF status' = "Active" /\ ~isNpcSpeaking' /\ ~isRecording'
                THEN startInactivityTimer(Timer)
                ELSE Timer)

\* The inactivity effect (lines 585-593) after the render of a handler that
\* leaves the hint at h: it runs when one of its dependencies changed (rerun
\* says that a setTranscript made a new array of equal content): the cleanup
\* of the last run clears the timer, and the new run arms it when the
\* conversation is quiet and clears it otherwise.
InactivityEffect(h, rerun) ==
    /\ hint' = h
    /\ SetTimer(IF ~rerun /\ <<isNpcSpeaking', isRecording', status',
                               scenario', transcript', h>>
                             = <<isNpcSpeaking, isRecording, status, scenario,
                                 transcript, hint>>
                THEN Timer
                ELSE IF status' = "Active" /\ ~isNpcSpeaking' /\ ~isRecording'
                     THEN startInactivityTimer(clearInactivityTimer(Timer))
                     ELSE clearInactivityTimer(clearInactivityTimer(Timer)))

\* the render after a handler that touches neither the hint nor a request
\* for a hint or an image
Rendered ==
    /\ InactivityEffect(hint, FALSE)
    /\ run' = IF transcript' = transcript THEN run ELSE NoRun
    /\ sentTo' = Null
    \* setTranslation(null) of handleBeginConversation, line 287
    /\ translation' = IF \E b \in Slots : begin'[b].pc = "mic" /\ begin[b].pc # "mic"
                       THEN NoTranslation
                       ELSE translation
    /\ UNCHANGED <<hintPending, imagePending, translatePending, codec>>

\* a return to Idle that keeps the scenario
ResetKeepingScenario ==
    /\ ended' = NoneEnded
    /\ status' = "Idle"
    /\ scenario' = scenario
    /\ transcript' = <<>>
    /\ result' = "none"
    /\ error' = "none"
    /\ studyCardHint' = FALSE

\* setScenario(null); setTranscript([]); setResult(null); setError(null);
\* setStudyCardHint(null) after setStatus(Idle)
ResetToIdle ==
    /\ ended' = NoneEnded
    /\ status' = "Idle"
    /\ scenario' = "none"
    /\ transcript' = <<>>
    /\ result' = "none"
    /\ error' = "none"
    /\ studyCardHint' = FALSE

\* the map widget: the user opens street view
ShowStreetView ==
    /\ ~RenderPending
    /\ ~isStreetViewVisible
    /\ isStreetViewVisible' = TRUE
    /\ UNCHANGED <<status, scenario, transcript, result, error, isNpcSpeaking,
                   isRecording, studyCardHint, refVars, worldVars, taskVars,
                   arrivals, sched, ended>>
    /\ Rendered

\* handleCloseRehearsal, from whichever caller
CloseRehearsalFrom(r) ==
    /\ SetRes(cleanupAudioAndSession(r))
    /\ isStreetViewVisible' = FALSE
    /\ ResetToIdle
    /\ begin' = Forget(begin, cleanupAudioAndSession(r).openSessions)

\* the visible_changed listener: the user closes street view.  Outside Idle
\* the render it causes runs the visibility effect, which calls
\* handleCloseRehearsal.
HideStreetView ==
    /\ ~RenderPending
    /\ isStreetViewVisible
    /\ IF status = "Idle"
       THEN /\ isStreetViewVisible' = FALSE
            /\ UNCHANGED <<status, scenario, transcript, result, error,
                           isNpcSpeaking, isRecording, studyCardHint, refVars,
                           worldVars, begin, stoppedPending, ended>>
       ELSE CloseRehearsalFrom(Cur)
    /\ UNCHANGED <<genPending, similarPending, summPending, studyPending,
                   replayPending, resumeQueue, arrivals, sched>>
    /\ Rendered

\* the visibility effect of a render in which status left Idle while street
\* view was closed
VisibilityEffect ==
    /\ EffectPending
    /\ CloseRehearsalFrom(Cur)
    /\ UNCHANGED <<genPending, similarPending, summPending, studyPending,
                   replayPending, resumeQueue, arrivals, sched>>
    /\ Rendered

\* the "New Scenario" and "Return to Map" buttons
handleCloseRehearsal ==
    /\ ~RenderPending
    /\ \/ status = "PausedForFeedback" /\ result # "none"
       \/ status = "Error" /\ error # "none"
    /\ CloseRehearsalFrom(Cur)
    /\ UNCHANGED <<genPending, similarPending, summPending, studyPending,
                   replayPending, resumeQueue, arrivals, sched>>
    /\ Rendered

\* the "Exit Rehearsal" button
handleExitToStreetView ==
    /\ ~RenderPending
    /\ status # "Idle"
    /\ SetRes(cleanupAudioAndSession(Cur))
    /\ ResetToIdle
    /\ begin' = Forget(begin, cleanupAudioAndSession(Cur).openSessions)
    /\ UNCHANGED <<isStreetViewVisible, genPending, similarPending,
                   summPending, studyPending, replayPending, resumeQueue,
                   arrivals, sched>>
    /\ Rendered

\* the "Exit" button when the platform calls in fails fail during the
\* teardown: an exception that leaves cleanupAudioAndSession leaves the
\* handler too, before its setStatus(Idle)
ExitWithFailure(fails) ==
    /\ ~RenderPending
    /\ status # "Idle"
    /\ LET c == cleanupWithFailures(Cur, fails) IN
        /\ SetRes(c.r)
        /\ begin' = Forget(begin, c.r.openSessions)
        /\ IF c.thrown
           THEN UNCHANGED <<status, scenario, transcript, result, error,
                            studyCardHint, ended>>
           ELSE ResetToIdle
    /\ UNCHANGED <<isStreetViewVisible, genPending, similarPending,
                   summPending, studyPending, replayPending, resumeQueue,
                   arrivals, sched>>
    /\ Rendered

\* the "Rehearse Here" button; locOk: getLocation() returned a usable location
handleRehearsalStartRequest(locOk) ==
    /\ ~RenderPending
    /\ isStreetViewVisible /\ status = "Idle"
    /\ status # "Generating"
    /\ transcript' = <<>>
    /\ result' = "none"
    /\ scenario' = "none"
    /\ IF locOk
       THEN /\ InFlight < MaxPending
            /\ genPending' = genPending + 1
            /\ status' = "Generating"
            /\ error' = "none"
       ELSE /\ genPending' = genPending
            /\ status' = "Error"
            /\ error' = "message"
    /\ UNCHANGED <<isNpcSpeaking, isRecording, studyCardHint,
                   isStreetViewVisible, refVars, worldVars, begin,
                   similarPending, summPending, studyPending, replayPending,
                   resumeQueue, stoppedPending, arrivals, sched, ended>>
    /\ Rendered

\* generateScenario resolves
GenResolved(scn) ==
    /\ ~RenderPending
    /\ genPending > 0
    /\ genPending' = genPending - 1
    /\ scenario' = scn
    /\ status' = "Briefing"
    /\ UNCHANGED <<transcript, result, error, isNpcSpeaking, isRecording,
                   studyCardHint, isStreetViewVisible, refVars, worldVars,
                   begin, similarPending, summPending, studyPending,
                   replayPending, resumeQueue, stoppedPending, arrivals,
                   sched, ended>>
    /\ Rendered

\* generateScenario rejects
GenFailed ==
    /\ ~RenderPending
    /\ genPending > 0
    /\ genPending' = genPending - 1
    /\ error' = "message"
    /\ status' = "Error"
    /\ UNCHANGED <<scenario, transcript, result, isNpcSpeaking, isRecording,
                   studyCardHint, isStreetViewVisible, refVars, worldVars,
                   begin, similarPending, summPending, studyPending,
                   replayPending, resumeQueue, stoppedPending, arrivals,
                   sched, ended>>
    /\ Rendered

\* the "Try Similar Task" button
handleTrySimilarScenario ==
    /\ ~RenderPending
    /\ status = "PausedForFeedback" /\ result # "none"
    /\ scenario # "none"
    /\ InFlight < MaxPending
    /\ similarPending' = similarPending + 1
    /\ status' = "Generating"
    /\ error' = "none"
    /\ transcript' = <<>>
    /\ result' = "none"
    /\ UNCHANGED <<scenario, isNpcSpeaking, isRecording, studyCardHint,
                   isStreetViewVisible, refVars, worldVars, begin, genPending,
                   summPending, studyPending, replayPending, resumeQueue,
                   stoppedPending, arrivals, sched, ended>>
    /\ Rendered

\* generateSimilarScenario resolves
SimilarResolved(scn) ==
    /\ ~RenderPending
    /\ similarPending > 0
    /\ similarPending' = similarPending - 1
    /\ scenario' = scn
    /\ status' = "Briefing"
    /\ UNCHANGED <<transcript, result, error, isNpcSpeaking, isRecording,
                   studyCardHint, isStreetViewVisible, refVars, worldVars,
                   begin, genPending, summPending, studyPending,
                   replayPending, resumeQueue, stoppedPending, arrivals,
                   sched, ended>>
    /\ Rendered

\* generateSimilarScenario rejects
SimilarFailed ==
    /\ ~RenderPending
    /\ similarPending > 0
    /\ similarPending' = similarPending - 1
    /\ error' = "message"
    /\ status' = "Error"
    /\ UNCHANGED <<scenario, transcript, result, isNpcSpeaking, isRecording,
                   studyCardHint, isStreetViewVisible, refVars, worldVars,
                   begin, genPending, summPending, studyPending,
                   replayPending, resumeQueue, stoppedPending, arrivals,
                   sched, ended>>
    /\ Rendered

\* ------------------------------------------------- handleBeginConversation
Refs ==
    {liveSessionRef, localStreamRef, mediaStreamSourceRef, scriptProcessorRef,
     inputAudioContextRef, outputAudioContextRef}

\* a slot whose call has finished and whose resources are all gone
FreeSlot(b) ==
    /\ begin[b].pc = "none"
    /\ b \notin openSessions \cup openStreams \cup openInCtx \cup Refs
    /\ outCtx[b] = "none"
    /\ \A src \in audioSourcesRef : src.ctx # b
    /\ \A i \in 1..Len(resumeQueue) : resumeQueue[i].ctx # b

FirstFree == CHOOSE b \in Slots : FreeSlot(b) /\ \A c \in Slots : FreeSlot(c) => b <= c

DropCtx(seq, b) == SelectSeq(seq, LAMBDA e : e.ctx # b)

\* the "Begin Conversation" (isContinuing = FALSE, shown in Briefing) and
\* "Continue Task" (isContinuing = TRUE, shown in PausedForFeedback when the
\* task is not complete) buttons, up to the first await
handleBeginConversation(isContinuing) ==
    /\ ~RenderPending
    /\ IF isContinuing
       THEN status = "PausedForFeedback" /\ result = "incomplete"
       ELSE status = "Briefing"
    /\ scenario # "none"
    /\ \E b \in Slots : FreeSlot(b)
    /\ LET b == FirstFree IN
        /\ begin' = [begin EXCEPT ![b] =
                        [pc |-> "mic", isContinuing |-> isContinuing,
                         scenario |-> scenario, status |-> status,
                         trEmpty |-> (transcript = <<>>),
                         isNpcSpeaking |-> isNpcSpeaking]]
        /\ sched' = DropCtx(sched, b)
        /\ ended' = [f \in DOMAIN ended |-> ended[f] \ {b}]
    /\ status' = "Ready"
    /\ transcript' = IF isContinuing THEN transcript ELSE <<>>
    /\ UNCHANGED <<scenario, result, error, isNpcSpeaking, isRecording,
                   studyCardHint, isStreetViewVisible, refVars, worldVars,
                   genPending, similarPending, summPending, studyPending,
                   replayPending, resumeQueue, stoppedPending, arrivals>>
    /\ Rendered

\* getUserMedia resolves: lines 292-311.  A new AudioContext is suspended
\* or running, as the platform's autoplay policy decides.
MicResolved(b, ctxState) ==
    /\ ~RenderPending
    /\ begin[b].pc = "mic"
    /\ localStreamRef' = b
    /\ inputAudioContextRef' = b
    /\ mediaStreamSourceRef' = b
    /\ scriptProcessorRef' = b
    /\ outputAudioContextRef' = b
    /\ nextStartTimeRef' = 0
    /\ openStreams' = openStreams \cup {b}
    /\ openInCtx' = openInCtx \cup {b}
    /\ outCtx' = [outCtx EXCEPT ![b] = ctxState]
    /\ ctxTime' = [ctxTime EXCEPT ![b] = 0]
    /\ begin' = [begin EXCEPT ![b].pc = "session"]
    /\ UNCHANGED <<uiVars, liveSessionRef, audioSourcesRef, openSessions,
                   genPending, similarPending, summPending, studyPending,
                   replayPending, resumeQueue, stoppedPending, arrivals,
                   sched, ended>>
    /\ Rendered

\* the catch of handleBeginConversation: lines 378-382
BeginCatch(b) ==
    /\ error' = "message"
    /\ status' = "Error"
    /\ begin' = Forget([begin EXCEPT ![b].pc = "none"], openSessions)
    /\ UNCHANGED <<scenario, transcript, result, isNpcSpeaking, isRecording,
                   studyCardHint, isStreetViewVisible, refVars, worldVars,
                   genPending, similarPending, summPending, studyPending,
                   replayPending, resumeQueue, stoppedPending, arrivals,
                   sched, ended>>

\* getUserMedia rejects
MicFailed(b) ==
    /\ ~RenderPending
    /\ begin[b].pc = "mic"
    /\ BeginCatch(b)
    /\ Rendered

\* startConversation rejects
SessionFailed(b) ==
    /\ ~RenderPending
    /\ begin[b].pc = "session"
    /\ BeginCatch(b)
    /\ Rendered

OpeningEntry ==
    [speaker |-> "npc", text |-> <<"opening">>, isFinal |-> TRUE,
     imageUrl |-> "undefined"]

\* a continuation that does not look at isContinuing before the opening line
OpeningLineAlways(b) ==
    /\ ~RenderPending
    /\ begin[b].pc = "session"
    /\ openSessions' = openSessions \cup {b}
    /\ liveSessionRef' = b
    /\ status' = "Active"
    /\ IF begin[b].scenario = "npcFirst"
       THEN /\ isNpcSpeaking' = TRUE
            /\ transcript' = <<OpeningEntry>>
            /\ begin' = Forget([begin EXCEPT ![b].pc = "speech"],
                               openSessions \cup {b})
       ELSE /\ UNCHANGED <<isNpcSpeaking, transcript>>
            /\ begin' = Forget([begin EXCEPT ![b].pc = "none"],
                               openSessions \cup {b})
    /\ UNCHANGED <<scenario, result, error, isRecording, studyCardHint,
                   isStreetViewVisible, localStreamRef, mediaStreamSourceRef,
                   scriptProcessorRef, inputAudioContextRef,
                   outputAudioContextRef, nextStartTimeRef, audioSourcesRef,
                   openStreams, openInCtx, outCtx, ctxTime, genPending,
                   similarPending, summPending, studyPending, replayPending,
                   resumeQueue, stoppedPending, arrivals, sched, ended>>
    /\ Rendered

\* startConversation resolves: lines 353-359, up to the await of
\* generateSpeech
SessionOpened(b) ==
    /\ ~RenderPending
    /\ begin[b].pc = "session"
    /\ openSessions' = openSessions \cup {b}
    /\ liveSessionRef' = b
    /\ status' = "Active"
    /\ IF begin[b].scenario = "npcFirst" /\ ~begin[b].isContinuing
       THEN /\ isNpcSpeaking' = TRUE
            /\ transcript' = <<OpeningEntry>>
            /\ begin' = Forget([begin EXCEPT ![b].pc = "speech"],
                               openSessions \cup {b})
       ELSE /\ UNCHANGED <<isNpcSpeaking, transcript>>
            /\ begin' = Forget([begin EXCEPT ![b].pc = "none"],
                               openSessions \cup {b})
    /\ UNCHANGED <<scenario, result, error, isRecording, studyCardHint,
                   isStreetViewVisible, localStreamRef, mediaStreamSourceRef,
                   scriptProcessorRef, inputAudioContextRef,
                   outputAudioContextRef, nextStartTimeRef, audioSourcesRef,
                   openStreams, openInCtx, outCtx, ctxTime, genPending,
                   similarPending, summPending, studyPending, replayPending,
                   resumeQueue, stoppedPending, arrivals, sched, ended>>
    /\ Rendered

\* -------------------------------------------------- handleEndConversation
\* a handleEndConversation that asks for a summary of an empty transcript
SummarizeAlways(r, st, scn, trEmpty) ==
    IF st = "Summarizing"
    THEN /\ SetRes(r)
         /\ begin' = Forget(begin, r.openSessions)
         /\ UNCHANGED <<status, scenario, transcript, result, error,
                        studyCardHint, isStreetViewVisible, summPending,
                        ended>>
    ELSE /\ SetRes(cleanupAudioAndSession(r))
         /\ begin' = Forget(begin, cleanupAudioAndSession(r).openSessions)
         /\ status' = "Summarizing"
         /\ summPending' = summPending + 1
         /\ ended' = [sessions |-> r.openSessions, streams |-> r.openStreams,
                      inCtx |-> r.openInCtx,
                      outCtx |-> {c \in Slots : r.outCtx[c] # "none"}]
         /\ UNCHANGED <<scenario, transcript, result, error, studyCardHint,
                        isStreetViewVisible>>

\* The body of handleEndConversation as a closure that captured st, scn and
\* trEmpty (transcript.length === 0) runs it on resources r.
EndConversationFrom(r, st, scn, trEmpty) ==
    IF st = "Summarizing"
    THEN /\ SetRes(r)
         /\ begin' = Forget(begin, r.openSessions)
         /\ UNCHANGED <<status, scenario, transcript, result, error,
                        studyCardHint, isStreetViewVisible, summPending,
                        ended>>
    ELSE IF scn = "none" \/ trEmpty
    THEN /\ CloseRehearsalFrom(cleanupAudioAndSession(r))
         /\ UNCHANGED summPending
    ELSE /\ SetRes(cleanupAudioAndSession(r))
         /\ begin' = Forget(begin, cleanupAudioAndSession(r).openSessions)
         /\ status' = "Summarizing"
         /\ summPending' = summPending + 1
         /\ ended' = [sessions |-> r.openSessions, streams |-> r.openStreams,
                      inCtx |-> r.openInCtx,
                      outCtx |-> {c \in Slots : r.outCtx[c] # "none"}]
         /\ UNCHANGED <<scenario, transcript, result, error, studyCardHint,
                        isStreetViewVisible>>

\* an End button that also works while the summary is awaited, with a
\* handler that does not look at the status
EndAlsoWhileSummarizing ==
    /\ ~RenderPending
    /\ status \in {"Active", "Summarizing"} /\ scenario # "none"
    /\ EndConversationFrom(Cur, "Active", scenario, transcript = <<>>)
    /\ UNCHANGED <<genPending, similarPending, studyPending, replayPending,
                   resumeQueue, arrivals, sched>>
    /\ Rendered

\* the "End & Get Feedback" button, enabled only in Active
handleEndConversation ==
    /\ ~RenderPending
    /\ status = "Active" /\ scenario # "none"
    /\ (transcript # <<>>) => InFlight < MaxPending
    /\ EndConversationFrom(Cur, status, scenario, transcript = <<>>)
    /\ UNCHANGED <<genPending, similarPending, studyPending, replayPending,
                   resumeQueue, arrivals, sched>>
    /\ Rendered

\* summarizeConversation resolves
SummResolved(res) ==
    /\ ~RenderPending
    /\ summPending > 0
    /\ summPending' = summPending - 1
    /\ result' = res
    /\ status' = "PausedForFeedback"
    /\ UNCHANGED <<scenario, transcript, error, isNpcSpeaking, isRecording,
                   studyCardHint, isStreetViewVisible, refVars, worldVars,
                   begin, genPending, similarPending, studyPending,
                   replayPending, resumeQueue, stoppedPending, arrivals,
                   sched, ended>>
    /\ Rendered

\* summarizeConversation rejects
SummFailed ==
    /\ ~RenderPending
    /\ summPending > 0
    /\ summPending' = summPending - 1
    /\ error' = "message"
    /\ status' = "Error"
    /\ UNCHANGED <<scenario, transcript, result, isNpcSpeaking, isRecording,
                   studyCardHint, isStreetViewVisible, refVars, worldVars,
                   begin, genPending, similarPending, studyPending,
                   replayPending, resumeQueue, stoppedPending, arrivals,
                   sched, ended>>
    /\ Rendered

\* ------------------------------------------------------- study card, mic
\* the "Get a Study Hint" button, enabled only in Active
handleStudyCardRequest ==
    /\ ~RenderPending
    /\ status = "Active" /\ scenario # "none"
    /\ InFlight < MaxPending
    /\ studyPending' = studyPending + 1
    /\ UNCHANGED <<uiVars, refVars, worldVars, begin, genPending,
                   similarPending, summPending, replayPending, resumeQueue,
                   stoppedPending, arrivals, sched, ended>>
    /\ Rendered

\* a handleStudyCardRequest whose catch reports the failure as an error
StudyCardFailureIsError(ok) ==
    /\ ~RenderPending
    /\ studyPending > 0
    /\ studyPending' = studyPending - 1
    /\ studyCardHint' = IF ok THEN TRUE ELSE studyCardHint
    /\ status' = IF ok THEN status ELSE "Error"
    /\ error' = IF ok THEN error ELSE "message"
    /\ UNCHANGED <<scenario, transcript, result, isNpcSpeaking,
                   isRecording, isStreetViewVisible, refVars, worldVars,
                   begin, genPending, similarPending, summPending,
                   replayPending, resumeQueue, stoppedPending, arrivals,
                   sched, ended>>
    /\ Rendered

\* generateStudyCardHint resolves (ok) or rejects
StudyCardSettled(ok) ==
    /\ ~RenderPending
    /\ studyPending > 0
    /\ studyPending' = studyPending - 1
    /\ studyCardHint' = IF ok THEN TRUE ELSE studyCardHint
    /\ UNCHANGED <<status, scenario, transcript, result, error, isNpcSpeaking,
                   isRecording, isStreetViewVisible, refVars, worldVars,
                   begin, genPending, similarPending, summPending,
                   replayPending, resumeQueue, stoppedPending, arrivals,
                   sched, ended>>
    /\ Rendered

\* the X of the study card
CloseStudyCard ==
    /\ ~RenderPending
    /\ studyCardHint
    /\ studyCardHint' = FALSE
    /\ UNCHANGED <<status, scenario, transcript, result, error, isNpcSpeaking,
                   isRecording, isStreetViewVisible, refVars, worldVars,
                   taskVars, arrivals, sched, ended>>
    /\ Rendered

\* a click on the text of entry i: handleShowTranslation up to its await.
\* The transcript is shown in Ready and Active.
handleShowTranslation(i) ==
    /\ ~RenderPending
    /\ status \in {"Active", "Ready"} /\ scenario # "none"
    /\ i \in 1..Len(transcript)
    /\ IF translation = <<transcript[i].text>>
       THEN /\ translation' = NoTranslation
            /\ UNCHANGED translatePending
       ELSE /\ transcript[i].text \notin translatePending
            /\ Cardinality(translatePending) < MaxPending
            /\ translatePending' = translatePending \cup {transcript[i].text}
            /\ UNCHANGED translation
    /\ UNCHANGED <<uiVars, refVars, worldVars, taskVars, histVars,
                   hintPending, imagePending, run, codec>>
    /\ InactivityEffect(hint, FALSE)
    /\ sentTo' = Null

\* translateText settles for the text it was called with: it resolves (ok)
\* and the translation is shown, or it rejects and the catch logs it
TranslationSettled(text, ok) ==
    /\ ~RenderPending
    /\ text \in translatePending
    /\ translatePending' = translatePending \ {text}
    /\ translation' = IF ok THEN <<text>> ELSE translation
    /\ UNCHANGED <<uiVars, refVars, worldVars, taskVars, histVars,
                   hintPending, imagePending, run, codec>>
    /\ InactivityEffect(hint, FALSE)
    /\ sentTo' = Null

\* startRecording's guard
CanStartRecording ==
    /\ scriptProcessorRef # Null
    /\ mediaStreamSourceRef # Null
    /\ inputAudioContextRef # Null
    /\ status = "Active"

\* stopRecording's guard
CanStopRecording ==
    scriptProcessorRef # Null /\ mediaStreamSourceRef # Null

\* the microphone button, disabled while the NPC speaks or outside Active
handleMicToggle ==
    /\ ~RenderPending
    /\ status = "Active" /\ scenario # "none" /\ ~isNpcSpeaking
    /\ IF isRecording
       THEN CanStopRecording /\ isRecording' = FALSE
       ELSE CanStartRecording /\ isRecording' = TRUE
    /\ UNCHANGED <<status, scenario, transcript, result, error, isNpcSpeaking,
                   studyCardHint, isStreetViewVisible, refVars, worldVars,
                   taskVars, arrivals, sched, ended>>
    \* lines 204-205: clearInactivityTimer(); setHint(null)
    /\ InactivityEffect(IF isRecording THEN hint ELSE "null", FALSE)
    /\ UNCHANGED <<hintPending, imagePending, run>>
    /\ sentTo' = Null
    /\ UNCHANGED <<translation, translatePending, codec>>

\* ------------------------------------------------------------------ capture
\* a capture callback that sends to the session of its own call
SendToOwnSession(p) ==
    /\ ~RenderPending
    /\ p \in openInCtx
    /\ sentTo' = p
    /\ UNCHANGED <<uiVars, refVars, worldVars, taskVars, histVars, hint,
                   inactivityTimerRef, timeouts, hintPending, imagePending, run,
                   translation, translatePending, codec>>

\* processor.onaudioprocess of the pipeline of call p: lines 304-311.  The
\* node can deliver a window only while its input context is open; whether
\* it is wired to the destination (startRecording, stopRecording) is not
\* tracked, so every open pipeline may deliver one.  The handle is read when
\* the callback runs; without one the window is dropped.
OnAudioProcess(p) ==
    /\ ~RenderPending
    /\ p \in openInCtx
    /\ sentTo' = liveSessionRef
    /\ UNCHANGED <<uiVars, refVars, worldVars, taskVars, histVars, hint,
                   inactivityTimerRef, timeouts, hintPending, imagePending, run,
                   translation, translatePending, codec>>

\* ------------------------------------------------------------- transcript
\* an updater that puts the fragment in front of the last entry's text
PrependFragment(prev, new) ==
    LET lastEntry == IF Len(prev) > 0 THEN prev[Len(prev)] ELSE new
    IN  IF Len(prev) > 0 /\ lastEntry.speaker = new.speaker /\ ~lastEntry.isFinal
        THEN [prev EXCEPT ![Len(prev)].text = new.text \o lastEntry.text]
        ELSE Append(prev, new)

\* an updater that merges into a final entry too
MergeIntoFinal(prev, new) ==
    LET lastEntry == IF Len(prev) > 0 THEN prev[Len(prev)] ELSE new
    IN  IF Len(prev) > 0 /\ lastEntry.speaker = new.speaker
        THEN [prev EXCEPT ![Len(prev)].text = lastEntry.text \o new.text]
        ELSE Append(prev, new)

\* an updater that marks the last entry only
FinalizeLast(prev) ==
    [i \in 1..Len(prev) |->
        IF i = Len(prev) THEN [prev[i] EXCEPT !.isFinal = TRUE] ELSE prev[i]]

\* the updater of onTranscriptUpdate: lines 315-328
onTranscriptUpdate(prev, new) ==
    LET lastEntry == IF Len(prev) > 0 THEN prev[Len(prev)] ELSE new
    IN  IF Len(prev) > 0 /\ lastEntry.speaker = new.speaker /\ ~lastEntry.isFinal
        THEN [prev EXCEPT ![Len(prev)].text = lastEntry.text \o new.text]
        ELSE Append(prev, new)

\* the updater of onTurnComplete: line 335
onTurnComplete(prev) ==
    [i \in 1..Len(prev) |-> [prev[i] EXCEPT !.isFinal = TRUE]]

Fragment(spk, frag) ==
    [speaker |-> spk, text |-> <<frag>>, isFinal |-> FALSE,
     imageUrl |-> "undefined"]

\* a handler that reports the end of the turn before the transcriptions
TurnCompleteFirst(prev, user, npc, turnComplete) ==
    LET t0 == IF turnComplete THEN onTurnComplete(prev) ELSE prev
        t1 == IF user = "none" THEN t0
              ELSE onTranscriptUpdate(t0, Fragment("user", user))
    IN  IF npc = "none" THEN t1
        ELSE onTranscriptUpdate(t1, Fragment("npc", npc))

\* The transcript after onmessage has handled one server message: the
\* callbacks are called one after the other, the inputTranscription first,
\* then the outputTranscription, then (after onNpcAudio, which queues no
\* updater) onTurnComplete, and React applies the queued updaters in that
\* order; "none" is a part the message does not carry.
onmessage(prev, user, npc, turnComplete) ==
    LET t1 == IF user = "none" THEN prev
              ELSE onTranscriptUpdate(prev, Fragment("user", user))
        t2 == IF npc = "none" THEN t1
              ELSE onTranscriptUpdate(t1, Fragment("npc", npc))
    IN  IF turnComplete THEN onTurnComplete(t2) ELSE t2

\* the history after a fragment of spk with text arrives on transcript tr
Arrived(r, tr, spk, text) ==
    IF r.speaker = spk
    THEN [r EXCEPT !.frags = Append(@, text)]
    ELSE [speaker |-> spk, frags |-> <<text>>, base |-> tr]

\* the size of a transcript: its entries and the fragments of each
Fits(tr) ==
    /\ Len(tr) <= MaxEntries
    /\ \A i \in 1..Len(tr) : Len(tr[i].text) <= MaxText

\* an inputTranscription or outputTranscription of a server message
OnTranscriptUpdate(s, spk, frag) ==
    /\ ~RenderPending
    /\ s \in openSessions
    /\ Fits(onTranscriptUpdate(transcript, Fragment(spk, frag)))
    /\ transcript' = onTranscriptUpdate(transcript, Fragment(spk, frag))
    /\ UNCHANGED <<status, scenario, result, error, isNpcSpeaking,
                   isRecording, studyCardHint, isStreetViewVisible, refVars,
                   worldVars, taskVars, arrivals, sched, ended>>
    /\ InactivityEffect(hint, TRUE)
    /\ run' = Arrived(run, transcript, spk, <<frag>>)
    /\ sentTo' = Null
    /\ UNCHANGED <<translation, translatePending, codec>>
    /\ UNCHANGED <<hintPending, imagePending>>

\* a turnComplete of a server message
OnTurnComplete(s) ==
    /\ ~RenderPending
    /\ s \in openSessions
    /\ transcript' = onTurnComplete(transcript)
    /\ UNCHANGED <<status, scenario, result, error, isNpcSpeaking,
                   isRecording, studyCardHint, isStreetViewVisible, refVars,
                   worldVars, taskVars, arrivals, sched, ended>>
    /\ InactivityEffect(hint, TRUE)
    /\ run' = NoRun
    /\ sentTo' = Null
    /\ UNCHANGED <<translation, translatePending, codec>>
    /\ UNCHANGED <<hintPending, imagePending>>

\* a server message with a transcription and turnComplete: onmessage calls
\* both callbacks, and the two updaters are applied before the next render
OnTextAndTurnComplete(s, spk, frag) ==
    /\ ~RenderPending
    /\ s \in openSessions
    /\ Fits(onTranscriptUpdate(transcript, Fragment(spk, frag)))
    /\ transcript' =
          onTurnComplete(onTranscriptUpdate(transcript, Fragment(spk, frag)))
    /\ UNCHANGED <<status, scenario, result, error, isNpcSpeaking,
                   isRecording, studyCardHint, isStreetViewVisible, refVars,
                   worldVars, taskVars, arrivals, sched, ended>>
    /\ InactivityEffect(hint, TRUE)
    /\ run' = NoRun
    /\ sentTo' = Null
    /\ UNCHANGED <<translation, translatePending, codec>>
    /\ UNCHANGED <<hintPending, imagePending>>

\* --------------------------------------------------------- inactivity hint
\* the timeout of startInactivityTimer fires: lines 576-580 up to the await
TimerFired ==
    /\ ~RenderPending
    /\ inactivityTimerRef = "pending"
    /\ timeouts = IF inactivityTimerRef = "pending" THEN 1 ELSE 0
    /\ hintPending < MaxHints
    /\ inactivityTimerRef' = "fired"
    /\ timeouts' = timeouts - 1
    /\ hintPending' = IF status = "Active" /\ scenario # "none"
                      THEN hintPending + 1
                      ELSE hintPending
    /\ UNCHANGED <<uiVars, refVars, worldVars, taskVars, histVars, hint,
                   imagePending, run>>
    /\ sentTo' = Null
    /\ UNCHANGED <<translation, translatePending, codec>>

\* generateHint resolves: setHint(generatedHint) of line 579, then the
\* inactivity effect for the new hint
HintResolved ==
    /\ ~RenderPending
    /\ hintPending > 0
    /\ hintPending' = hintPending - 1
    /\ UNCHANGED <<uiVars, refVars, worldVars, taskVars, histVars>>
    /\ InactivityEffect("hint", TRUE)
    /\ UNCHANGED <<imagePending, run>>
    /\ sentTo' = Null
    /\ UNCHANGED <<translation, translatePending, codec>>

\* generateHint rejects (the request fails, or JSON.parse throws): the
\* timeout callback has no catch
HintRejected ==
    /\ ~RenderPending
    /\ hintPending > 0
    /\ hintPending' = hintPending - 1
    /\ UNCHANGED <<uiVars, refVars, worldVars, taskVars, histVars, hint,
                   inactivityTimerRef, timeouts, imagePending, run>>
    /\ sentTo' = Null
    /\ UNCHANGED <<translation, translatePending, codec>>

\* the render of the setHint(null) of line 590
HintCleared ==
    /\ HintEffectPending
    /\ UNCHANGED <<uiVars, refVars, worldVars, taskVars, histVars>>
    /\ InactivityEffect("null", TRUE)
    /\ UNCHANGED <<hintPending, imagePending, run>>
    /\ sentTo' = Null
    /\ UNCHANGED <<translation, translatePending, codec>>

\* -------------------------------------------------------- image directive
\* a removal that takes the text before the directive with it
StripThroughDirective(text) ==
    LET k == CHOOSE i \in 1..Len(text) :
                 text[i] = Directive /\ \A j \in 1..(i - 1) : text[j] # Directive
    IN  SubSeq(text, k + 1, Len(text))

\* text.replace(imageRegex, '') of line 538: the first match is removed
StripDirective(text) ==
    LET k == CHOOSE i \in 1..Len(text) :
                 text[i] = Directive /\ \A j \in 1..(i - 1) : text[j] # Directive
    IN  SubSeq(text, 1, k - 1) \o SubSeq(text, k + 1, Len(text))

\* an updater that takes the directive out and leaves imageUrl undefined
StripOnly(prev, i) ==
    IF i <= Len(prev)
    THEN [prev EXCEPT ![i].text =
            LET k == CHOOSE n \in 1..Len(@) :
                         @[n] = Directive /\ \A j \in 1..(n - 1) : @[j] # Directive
            IN  SubSeq(@, 1, k - 1) \o SubSeq(@, k + 1, Len(@))]
    ELSE prev

\* the updater of lines 533-543 for currentIndex i
markLoading(prev, i) ==
    IF i <= Len(prev)
    THEN [prev EXCEPT ![i].text = StripDirective(@), ![i].imageUrl = "loading"]
    ELSE prev

\* the updater of lines 546-555 for currentIndex i
attachImage(prev, i, url) ==
    IF i <= Len(prev) THEN [prev EXCEPT ![i].imageUrl = url] ELSE prev

\* the image effect (lines 522-559) after a render whose last entry is of
\* the NPC, has no imageUrl and holds a directive: the directive is taken
\* out of the text and generateImage is called
ImageDirectiveEffect ==
    /\ ImageEffectPending
    /\ transcript' = markLoading(transcript, Len(transcript))
    /\ imagePending' = imagePending \cup {Len(transcript)}
    /\ UNCHANGED <<status, scenario, result, error, isNpcSpeaking,
                   isRecording, studyCardHint, isStreetViewVisible, refVars,
                   worldVars, taskVars, arrivals, sched, ended>>
    /\ InactivityEffect(hint, TRUE)
    /\ run' = NoRun
    /\ sentTo' = Null
    /\ UNCHANGED <<translation, translatePending, codec>>
    /\ UNCHANGED hintPending

\* generateImage resolves for currentIndex i, with a URL or with null
ImageResolved(i, ok) ==
    /\ ~RenderPending
    /\ i \in imagePending
    /\ transcript' = attachImage(transcript, i, IF ok THEN "url" ELSE "error")
    /\ imagePending' = imagePending \ {i}
    /\ UNCHANGED <<status, scenario, result, error, isNpcSpeaking,
                   isRecording, studyCardHint, isStreetViewVisible, refVars,
                   worldVars, taskVars, arrivals, sched, ended>>
    /\ InactivityEffect(hint, TRUE)
    /\ run' = NoRun
    /\ sentTo' = Null
    /\ UNCHANGED <<translation, translatePending, codec>>
    /\ UNCHANGED hintPending

\* ---------------------------------------------------- onError and onClose
\* onError of session s: lines 337-342
OnError(s) ==
    /\ ~RenderPending
    /\ s \in openSessions
    /\ error' = "message"
    /\ status' = "Error"
    /\ SetRes(cleanupAudioAndSession(Cur))
    /\ begin' = Forget(begin, cleanupAudioAndSession(Cur).openSessions)
    /\ UNCHANGED <<scenario, transcript, result, studyCardHint,
                   isStreetViewVisible, genPending, similarPending,
                   summPending, studyPending, replayPending, resumeQueue,
                   arrivals, sched, ended>>
    /\ Rendered

\* the remote endpoint closes session s, and its onClose runs: lines 343-350.
\* status is the one the call of handleBeginConversation captured, and
\* handleEndConversation is the one of that render.
OnClose(s) ==
    /\ ~RenderPending
    /\ s \in openSessions
    /\ LET r == [Cur EXCEPT !.openSessions = @ \ {s}] IN
        IF begin[s].status = "Active"
        THEN EndConversationFrom(r, begin[s].status, begin[s].scenario,
                                 begin[s].trEmpty)
        ELSE /\ SetRes(cleanupAudioAndSession(r))
             /\ begin' = Forget(begin, cleanupAudioAndSession(r).openSessions)
             /\ UNCHANGED <<status, scenario, transcript, result, error,
                            studyCardHint, isStreetViewVisible, summPending,
                            ended>>
    /\ UNCHANGED <<genPending, similarPending, studyPending, replayPending,
                   resumeQueue, arrivals, sched>>
    /\ Rendered

\* --------------------------------------------------------------- playback
Durations == 1..MaxDur
\* what generateSpeech or a server message delivers: audio that decodes,
\* a payload that does not (atob or the Int16Array view throws), or null
Payloads == {"ok", "bad", "null"}

\* a scheduler that does not advance nextStartTime past the chunk
ScheduleWithoutAdvance(r, c, arr, dur) ==
    LET start == Max(r.next, r.ctxTime[c])
    IN  [r EXCEPT !.sources = @ \cup {[ctx |-> c, arr |-> arr,
                                       start |-> start, dur |-> dur]},
                  !.next = start]

\* lines 118-135: the chunk starts at max(nextStartTime, currentTime)
Schedule(r, c, arr, dur) ==
    LET start == Max(r.next, r.ctxTime[c])
    IN  [r EXCEPT !.sources = @ \cup {[ctx |-> c, arr |-> arr,
                                       start |-> start, dur |-> dur]},
                  !.next = start + dur]

\* the history entry of that chunk; waited: the call was suspended at
\* resume() before it got here
ScheduledAt(r, c, arr, dur, waited) ==
    [ctx |-> c, arr |-> arr, start |-> Max(r.next, r.ctxTime[c]), dur |-> dur,
     waited |-> waited]

\* a try block that moves nextStartTime before it decodes
ScheduleBeforeDecode(p, c, arr, dur, payload, waited) ==
    IF payload = "ok"
    THEN [p EXCEPT !.r = Schedule(p.r, c, arr, dur),
                   !.sched = Append(@, ScheduledAt(p.r, c, arr, dur, waited))]
    ELSE [p EXCEPT !.r.next = Max(p.r.next, p.r.ctxTime[c]) + dur]

\* playAudioChunk from its try on (lines 113-138), on context c: a payload
\* that does not decode is caught and logged
DecodeAndSchedule(p, c, arr, dur, payload, waited) ==
    IF payload = "ok"
    THEN [p EXCEPT !.r = Schedule(p.r, c, arr, dur),
                   !.sched = Append(@, ScheduledAt(p.r, c, arr, dur, waited))]
    ELSE p

\* playAudioChunk, called with payload as chunk number arr by owner (a slot
\* whose opening line awaits it, or Null): p holds the resources, the queue
\* of calls suspended at their await of resume() and the schedule so far.
playAudioChunk(p, arr, dur, payload, owner) ==
    IF p.r.outRef = Null \/ payload = "null"
    THEN p
    ELSE IF p.r.outCtx[p.r.outRef] = "suspended"
    THEN [p EXCEPT !.queue = Append(@, [ctx |-> p.r.outRef, arr |-> arr,
                                         dur |-> dur, payload |-> payload,
                                         owner |-> owner])]
    ELSE DecodeAndSchedule(p, p.r.outRef, arr, dur, payload, FALSE)

Suspends(p, payload) ==
    /\ p.r.outRef # Null
    /\ payload # "null"
    /\ p.r.outCtx[p.r.outRef] = "suspended"

PlayState == [r |-> Cur, queue |-> resumeQueue, sched |-> sched]

SetPlay(p) ==
    /\ SetRes(p.r)
    /\ resumeQueue' = p.queue
    /\ sched' = p.sched

\* onNpcAudio of session s: lines 330-333; isNpcSpeaking is the value the
\* call of handleBeginConversation captured
OnNpcAudio(s, dur, payload) ==
    /\ ~RenderPending
    /\ s \in openSessions
    /\ payload # "null"
    /\ arrivals < MaxChunks
    /\ arrivals' = arrivals + 1
    /\ LET r == IF begin[s].isNpcSpeaking THEN Cur
                ELSE [Cur EXCEPT !.isNpcSpeaking = TRUE]
       IN  SetPlay(playAudioChunk([PlayState EXCEPT !.r = r], arrivals + 1,
                                  dur, payload, Null))
    /\ UNCHANGED <<status, scenario, transcript, result, error, studyCardHint,
                   isStreetViewVisible, begin, genPending, similarPending,
                   summPending, studyPending, replayPending, ended>>
    /\ Rendered

\* One server message of session s, handled by onmessage from its first
\* line to its last: the transcriptions user and npc, the audio chunk
\* payload of duration dur and the turnComplete flag it carries ("none" and
\* "null" are absent parts), each given to its callback in the order of the
\* handler. onNpcAudio runs playAudioChunk up to its first await.
OnMessage(s, user, npc, dur, payload, turnComplete) ==
    /\ ~RenderPending
    /\ s \in openSessions
    /\ user # "none" \/ npc # "none" \/ payload # "null" \/ turnComplete
    /\ Fits(onmessage(transcript, user, npc, FALSE))
    /\ transcript' = onmessage(transcript, user, npc, turnComplete)
    /\ payload # "null" => arrivals < MaxChunks
    /\ arrivals' = IF payload = "null" THEN arrivals ELSE arrivals + 1
    /\ LET r == IF payload = "null" \/ begin[s].isNpcSpeaking THEN Cur
                ELSE [Cur EXCEPT !.isNpcSpeaking = TRUE]
       IN  SetPlay(playAudioChunk([PlayState EXCEPT !.r = r], arrivals + 1,
                                  dur, payload, Null))
    /\ UNCHANGED <<status, scenario, result, error, studyCardHint,
                   isStreetViewVisible, begin, genPending, similarPending,
                   summPending, studyPending, replayPending, ended>>
    /\ InactivityEffect(hint, user # "none" \/ npc # "none" \/ turnComplete)
    \* a message that ends the turn starts no run of fragments: what it
    \* carried and the transcript it arrived on are kept under no speaker
    /\ run' = IF turnComplete
              THEN [speaker |-> "none", frags |-> <<<<user>>, <<npc>>>>,
                    base |-> transcript]
              ELSE NoRun
    /\ sentTo' = Null
    /\ UNCHANGED <<translation, translatePending, codec>>
    /\ UNCHANGED <<hintPending, imagePending>>

\* generateSpeech of the opening line settles: lines 361-375
SpeechResolved(b, dur, payload) ==
    /\ ~RenderPending
    /\ begin[b].pc = "speech"
    /\ payload # "null" => arrivals < MaxChunks
    /\ arrivals' = IF payload = "null" THEN arrivals ELSE arrivals + 1
    /\ LET r == IF payload = "null"
                THEN [Cur EXCEPT !.isNpcSpeaking = FALSE] ELSE Cur
           p == [PlayState EXCEPT !.r = r]
       IN  /\ SetPlay(playAudioChunk(p, arrivals + 1, dur, payload, b))
           /\ begin' = Forget([begin EXCEPT ![b].pc =
                                 IF Suspends(p, payload) THEN "play"
                                 ELSE "none"], openSessions)
    /\ UNCHANGED <<status, scenario, transcript, result, error, studyCardHint,
                   isStreetViewVisible, genPending, similarPending,
                   summPending, studyPending, replayPending, ended>>
    /\ Rendered

\* the replay buttons: of an NPC entry (line 706, in Ready and Active) and
\* of the suggested continuation (line 837, in PausedForFeedback)
ReplayRequest ==
    /\ ~RenderPending
    /\ scenario # "none"
    /\ \/ /\ status \in {"Active", "Ready"}
          /\ \E i \in 1..Len(transcript) : transcript[i].speaker = "npc"
       \/ status = "PausedForFeedback" /\ result = "incomplete"
    /\ InFlight < MaxPending
    /\ replayPending' = replayPending + 1
    /\ UNCHANGED <<uiVars, refVars, worldVars, begin, genPending,
                   similarPending, summPending, studyPending, resumeQueue,
                   stoppedPending, arrivals, sched, ended>>
    /\ Rendered

\* generateSpeech(...).then(playAudioChunk)
ReplayResolved(dur, payload) ==
    /\ ~RenderPending
    /\ replayPending > 0
    /\ replayPending' = replayPending - 1
    /\ payload # "null" => arrivals < MaxChunks
    /\ arrivals' = IF payload = "null" THEN arrivals ELSE arrivals + 1
    /\ SetPlay(playAudioChunk(PlayState, arrivals + 1, dur, payload, Null))
    /\ UNCHANGED <<status, scenario, transcript, result, error, studyCardHint,
                   isStreetViewVisible, begin, genPending, similarPending,
                   summPending, studyPending, ended>>
    /\ Rendered

RECURSIVE Drain(_, _, _)
\* the calls suspended at resume() on context c continue, in the order in
\* which they called it
Drain(p, q, c) ==
    IF q = <<>> THEN p
    ELSE LET e == Head(q)
         IN  IF e.ctx = c
             THEN Drain(DecodeAndSchedule(p, c, e.arr, e.dur, e.payload,
                                          TRUE),
                        Tail(q), c)
             ELSE Drain([p EXCEPT !.queue = Append(@, e)], Tail(q), c)

Owners(c) ==
    {resumeQueue[i].owner : i \in {j \in 1..Len(resumeQueue) :
                                      resumeQueue[j].ctx = c}}

\* output context c starts rendering: its state becomes running and the
\* pending resume() promises resolve
CtxResumed(c) ==
    /\ ~RenderPending
    /\ outCtx[c] = "suspended"
    /\ LET r == [Cur EXCEPT !.outCtx[c] = "running"]
       IN  SetPlay(Drain([r |-> r, queue |-> <<>>, sched |-> sched],
                         resumeQueue, c))
    /\ begin' = Forget([b \in Slots |->
                          IF b \in Owners(c) /\ begin[b].pc = "play"
                          THEN [begin[b] EXCEPT !.pc = "none"]
                          ELSE begin[b]], openSessions)
    /\ UNCHANGED <<status, scenario, transcript, result, error, studyCardHint,
                   isStreetViewVisible, genPending, similarPending,
                   summPending, studyPending, replayPending, arrivals,
                   ended>>
    /\ Rendered

\* output context c was closed with calls suspended at resume(): the
\* promises reject.  The rejection leaves playAudioChunk; the opening line's
\* catch (lines 371-375) clears the flag.
ResumeRejected(c) ==
    /\ ~RenderPending
    /\ outCtx[c] = "none"
    /\ \E i \in 1..Len(resumeQueue) : resumeQueue[i].ctx = c
    /\ resumeQueue' = DropCtx(resumeQueue, c)
    /\ isNpcSpeaking' = IF \E b \in Owners(c) : b # Null
                        THEN FALSE ELSE isNpcSpeaking
    /\ begin' = Forget([b \in Slots |->
                          IF b \in Owners(c) /\ begin[b].pc = "play"
                          THEN [begin[b] EXCEPT !.pc = "none"]
                          ELSE begin[b]], openSessions)
    /\ UNCHANGED <<status, scenario, transcript, result, error, isRecording,
                   studyCardHint, isStreetViewVisible, refVars, worldVars,
                   genPending, similarPending, summPending, studyPending,
                   replayPending, stoppedPending, arrivals, sched, ended>>
    /\ Rendered

\* currentTime of a running output context advances
Tick(c) ==
    /\ ~RenderPending
    /\ outCtx[c] = "running"
    /\ ctxTime[c] < MaxTime
    /\ ctxTime' = [ctxTime EXCEPT ![c] = @ + 1]
    /\ UNCHANGED <<uiVars, refVars, openSessions, openStreams, openInCtx,
                   outCtx, taskVars, arrivals, sched, ended>>
    /\ Rendered

\* source.onended of a source that played to its end: lines 126-131
SourceEnded(src) ==
    /\ ~RenderPending
    /\ src \in audioSourcesRef
    /\ outCtx[src.ctx] = "running"
    /\ ctxTime[src.ctx] >= src.start + src.dur
    /\ audioSourcesRef' = audioSourcesRef \ {src}
    /\ isNpcSpeaking' = IF audioSourcesRef \ {src} = {} THEN FALSE
                        ELSE isNpcSpeaking
    /\ UNCHANGED <<status, scenario, transcript, result, error, isRecording,
                   studyCardHint, isStreetViewVisible, liveSessionRef,
                   localStreamRef, mediaStreamSourceRef, scriptProcessorRef,
                   inputAudioContextRef, outputAudioContextRef,
                   nextStartTimeRef, worldVars, taskVars, arrivals, sched,
                   ended>>
    /\ Rendered

\* source.onended of a source that teardown stopped: the source has left the
\* set already
StoppedSourceEnded ==
    /\ ~RenderPending
    /\ stoppedPending > 0
    /\ stoppedPending' = stoppedPending - 1
    /\ isNpcSpeaking' = IF audioSourcesRef = {} THEN FALSE ELSE isNpcSpeaking
    /\ UNCHANGED <<status, scenario, transcript, result, error, isRecording,
                   studyCardHint, isStreetViewVisible, refVars, worldVars,
                   begin, genPending, similarPending, summPending,
                   studyPending, replayPending, resumeQueue, arrivals, sched,
                   ended>>
    /\ Rendered

\* -------------------------------------------------------------- the system
\* the user and the generative services
UserStep ==
    \/ ShowStreetView
    \/ HideStreetView
    \/ VisibilityEffect
    \/ handleCloseRehearsal
    \/ handleExitToStreetView
    \/ \E locOk \in BOOLEAN : handleRehearsalStartRequest(locOk)
    \/ \E scn \in Scenarios : GenResolved(scn)
    \/ GenFailed
    \/ handleTrySimilarScenario
    \/ \E scn \in Scenarios : SimilarResolved(scn)
    \/ SimilarFailed
    \/ \E c \in BOOLEAN : handleBeginConversation(c)
    \/ \E b \in Slots : MicFailed(b)
    \/ \E b \in Slots : SessionOpened(b)
    \/ \E b \in Slots : SessionFailed(b)
    \/ handleEndConversation
    \/ \E res \in Results : SummResolved(res)
    \/ SummFailed
    \/ handleMicToggle
    \/ \E s \in Slots : OnTranscriptUpdate(s, "user", "a")
    \/ \E s \in Slots : OnError(s)
    \/ \E s \in Slots : OnClose(s)

\* The lifecycle with a silent NPC: output contexts start running, the
\* opening line comes back without audio and the session sends no audio.
Next ==
    \/ UserStep
    \/ \E b \in Slots : MicResolved(b, "running")
    \/ \E b \in Slots : SpeechResolved(b, 1, "null")

Spec == Init /\ [][Next]_vars

\* A conversation that has just become Active on slot 1 (the state after
\* SessionOpened): with a user-first scenario the call has returned, with an
\* NPC-first one it awaits the speech of the opening line.
InitPlayback ==
    /\ status = "Active"
    /\ scenario \in Scenarios
    /\ transcript = IF scenario = "npcFirst" THEN <<OpeningEntry>> ELSE <<>>
    /\ result = "none"
    /\ error = "none"
    /\ isNpcSpeaking = (scenario = "npcFirst")
    /\ isRecording = FALSE
    /\ studyCardHint = FALSE
    /\ isStreetViewVisible = TRUE
    /\ liveSessionRef = 1
    /\ localStreamRef = 1
    /\ mediaStreamSourceRef = 1
    /\ scriptProcessorRef = 1
    /\ inputAudioContextRef = 1
    /\ outputAudioContextRef = 1
    /\ nextStartTimeRef = 0
    /\ audioSourcesRef = {}
    /\ openSessions = {1}
    /\ openStreams = {1}
    /\ openInCtx = {1}
    /\ outCtx \in {[c \in Slots |-> IF c = 1 THEN st ELSE "none"] :
                     st \in {"suspended", "running"}}
    /\ ctxTime = [c \in Slots |-> 0]
    /\ begin = [b \in Slots |->
                  IF b = 1
                  THEN [NoBegin EXCEPT
                          !.pc = IF scenario = "npcFirst" THEN "speech"
                                 ELSE "none",
                          !.status = "Briefing"]
                  ELSE NoBegin]
    /\ genPending = 0
    /\ similarPending = 0
    /\ summPending = 0
    /\ studyPending = 0
    /\ replayPending = 0
    /\ resumeQueue = <<>>
    /\ stoppedPending = 0
    /\ arrivals = 0
    /\ sched = <<>>
    /\ ended = NoneEnded
    /\ hint = "null"
    /\ inactivityTimerRef = IF Quiet THEN "pending" ELSE "null"
    /\ timeouts = IF inactivityTimerRef = "pending" THEN 1 ELSE 0
    /\ hintPending = 0
    /\ imagePending = {}
    /\ run = NoRun
    /\ sentTo = Null
    /\ translation = NoTranslation
    /\ translatePending = {}
    /\ codec = NoSample

\* Playback during and after one conversation: chunks arrive from the
\* session, from the opening line and from the replay buttons, while the
\* conversation is ended, left, or started again.
NextPlayback ==
    \/ \E b \in Slots, d \in Durations, pl \in Payloads : SpeechResolved(b, d, pl)
    \/ \E s \in Slots, d \in Durations, pl \in {"ok", "bad"} : OnNpcAudio(s, d, pl)
    \/ ReplayRequest
    \/ \E d \in Durations, pl \in Payloads : ReplayResolved(d, pl)
    \/ \E c \in Slots : CtxResumed(c)
    \/ \E c \in Slots : ResumeRejected(c)
    \/ \E c \in Slots : Tick(c)
    \/ \E src \in audioSourcesRef : SourceEnded(src)
    \/ StoppedSourceEnded
    \/ handleEndConversation
    \/ SummResolved("incomplete")
    \/ handleExitToStreetView
    \/ \E s \in Slots : OnClose(s)
    \/ handleBeginConversation(TRUE)
    \/ \E b \in Slots, st \in {"suspended", "running"} : MicResolved(b, st)
    \/ \E b \in Slots : SessionOpened(b)

SpecPlayback == InitPlayback /\ [][NextPlayback]_vars

\* The chunks of the session in a conversation whose user speaks first, so
\* that only onNpcAudio raises isNpcSpeaking: they arrive, wait for the
\* context, play and end, and the conversation may be left meanwhile.
InitSpeaking == InitPlayback /\ scenario = "userFirst"

NextSpeaking ==
    \/ \E s \in Slots, d \in Durations, pl \in {"ok", "bad"} : OnNpcAudio(s, d, pl)
    \/ \E c \in Slots : CtxResumed(c)
    \/ \E c \in Slots : ResumeRejected(c)
    \/ \E c \in Slots : Tick(c)
    \/ \E src \in audioSourcesRef : SourceEnded(src)
    \/ StoppedSourceEnded
    \/ handleExitToStreetView

\* What the platform does by itself: the clock of a running context
\* advances, a source whose end has come (or that was stopped) gets its
\* onended, and a resume() promise settles.  The arrival of a chunk and the
\* press of a button are left to the session and the user.
FairSpeaking ==
    /\ WF_vars(\E c \in Slots : Tick(c))
    /\ WF_vars(\E src \in audioSourcesRef : SourceEnded(src))
    /\ WF_vars(StoppedSourceEnded)
    /\ WF_vars(\E c \in Slots : CtxResumed(c))
    /\ WF_vars(\E c \in Slots : ResumeRejected(c))

SpecSpeaking == InitSpeaking /\ [][NextSpeaking]_vars /\ FairSpeaking

\* The controls of one Active conversation: the study card, the microphone,
\* the transcript, and the ways out of the conversation.
NextPanel ==
    \/ handleStudyCardRequest
    \/ \E ok \in BOOLEAN : StudyCardSettled(ok)
    \/ CloseStudyCard
    \/ handleMicToggle
    \/ \E s \in Slots, spk \in Speakers : OnTranscriptUpdate(s, spk, "a")
    \/ \E s \in Slots : OnTurnComplete(s)
    \/ \E b \in Slots : SpeechResolved(b, 1, "null")
    \/ handleEndConversation
    \/ \E res \in Results : SummResolved(res)
    \/ SummFailed
    \/ handleExitToStreetView
    \/ handleCloseRehearsal
    \/ HideStreetView
    \/ ShowStreetView
    \/ \E s \in Slots : OnError(s)
    \/ \E s \in Slots : OnClose(s)

SpecPanel == InitPlayback /\ [][NextPanel]_vars

\* The chunks of one Active conversation that nothing tears down: every
\* chunk handed to playAudioChunk finds the output context of slot 1.
NextChunks ==
    \/ \E s \in Slots, d \in Durations, pl \in {"ok", "bad"} : OnNpcAudio(s, d, pl)
    \/ \E b \in Slots, d \in Durations, pl \in Payloads : SpeechResolved(b, d, pl)
    \/ ReplayRequest
    \/ \E d \in Durations, pl \in Payloads : ReplayResolved(d, pl)
    \/ \E c \in Slots : CtxResumed(c)
    \/ \E c \in Slots : Tick(c)
    \/ \E src \in audioSourcesRef : SourceEnded(src)

SpecChunks == InitPlayback /\ [][NextChunks]_vars

\* The transcripts the two updaters produce: the entries before the last
\* turnComplete are final, and the ones after it alternate between the
\* speakers (two fragments of one speaker in a row are one entry).
WellFormed(tr) ==
    \A i \in 1..(Len(tr) - 1) :
        ~tr[i].isFinal =>
            ~tr[i + 1].isFinal /\ tr[i + 1].speaker # tr[i].speaker

Tokens == {"a", "b"}

InitEntries ==
    [speaker : Speakers, text : {<<t>> : t \in Tokens}, isFinal : BOOLEAN,
     imageUrl : {"undefined"}]

InitTranscripts ==
    {tr \in UNION {[1..n -> InitEntries] : n \in 0..(MaxEntries - 1)} :
        WellFormed(tr)}

\* An Active conversation of a user-first scenario some messages in: the
\* transcript is any that the updaters produce from fragments of one token.
InitTranscript ==
    /\ status = "Active"
    /\ scenario = "userFirst"
    /\ transcript \in InitTranscripts
    /\ result = "none"
    /\ error = "none"
    /\ isNpcSpeaking = FALSE
    /\ isRecording = FALSE
    /\ studyCardHint = FALSE
    /\ isStreetViewVisible = TRUE
    /\ liveSessionRef = 1
    /\ localStreamRef = 1
    /\ mediaStreamSourceRef = 1
    /\ scriptProcessorRef = 1
    /\ inputAudioContextRef = 1
    /\ outputAudioContextRef = 1
    /\ nextStartTimeRef = 0
    /\ audioSourcesRef = {}
    /\ openSessions = {1}
    /\ openStreams = {1}
    /\ openInCtx = {1}
    /\ outCtx = [c \in Slots |-> IF c = 1 THEN "running" ELSE "none"]
    /\ ctxTime = [c \in Slots |-> 0]
    /\ begin = [b \in Slots |->
                  IF b = 1 THEN [NoBegin EXCEPT !.status = "Briefing"]
                  ELSE NoBegin]
    /\ genPending = 0
    /\ similarPending = 0
    /\ summPending = 0
    /\ studyPending = 0
    /\ replayPending = 0
    /\ resumeQueue = <<>>
    /\ stoppedPending = 0
    /\ arrivals = 0
    /\ sched = <<>>
    /\ ended = NoneEnded
    /\ hint = "null"
    /\ inactivityTimerRef = "pending"
    /\ timeouts = IF inactivityTimerRef = "pending" THEN 1 ELSE 0
    /\ hintPending = 0
    /\ imagePending = {}
    /\ run = NoRun
    /\ sentTo = Null
    /\ translation = NoTranslation
    /\ translatePending = {}
    /\ codec = NoSample

\* the transcript events of the session's messages, applied to it
NextTranscript ==
    \/ \E s \in Slots, spk \in Speakers, f \in Tokens :
          OnTranscriptUpdate(s, spk, f)
    \/ \E s \in Slots : OnTurnComplete(s)

SpecTranscript == InitTranscript /\ [][NextTranscript]_vars

\* The same conversation, taken one whole server message at a time.
NextMessage ==
    \E s \in Slots, user \in Tokens \cup {"none"}, npc \in Tokens \cup {"none"},
       payload \in {"ok", "null"}, turnComplete \in BOOLEAN :
        OnMessage(s, user, npc, 1, payload, turnComplete)

SpecMessage == InitTranscript /\ [][NextMessage]_vars

\* The transcript of one Active conversation whose NPC shows images: the
\* fragments are plain text or a whole directive.
NextImage ==
    \/ \E s \in Slots, spk \in Speakers, f \in {"a", Directive} :
          OnTranscriptUpdate(s, spk, f)
    \/ \E s \in Slots : OnTurnComplete(s)
    \/ \E s \in Slots, spk \in Speakers, f \in {"a", Directive} :
          OnTextAndTurnComplete(s, spk, f)
    \/ ImageDirectiveEffect
    \/ \E i \in 1..MaxEntries, ok \in BOOLEAN : ImageResolved(i, ok)
    \/ \E b \in Slots : SpeechResolved(b, 1, "null")

SpecImage == InitPlayback /\ [][NextImage]_vars

\* The inactivity hint of one Active conversation: the timer, the hint
\* requests, and what starts and stops the quiet of the conversation.
NextHint ==
    \/ TimerFired
    \/ HintResolved
    \/ HintRejected
    \/ HintCleared
    \/ handleMicToggle
    \/ \E s \in Slots : OnNpcAudio(s, 1, "ok")
    \/ \E b \in Slots, pl \in {"ok", "null"} : SpeechResolved(b, 1, pl)
    \/ \E c \in Slots : CtxResumed(c)
    \/ \E c \in Slots : Tick(c)
    \/ \E src \in audioSourcesRef : SourceEnded(src)
    \/ \E s \in Slots : OnTranscriptUpdate(s, "user", "a")
    \/ \E s \in Slots : OnTurnComplete(s)
    \/ handleEndConversation
    \/ \E res \in Results : SummResolved(res)
    \/ SummFailed
    \/ handleExitToStreetView
    \/ handleCloseRehearsal
    \/ \E s \in Slots : OnError(s)
    \/ \E s \in Slots : OnClose(s)

SpecHint == InitPlayback /\ [][NextHint]_vars

\* One Active conversation and its teardown by the Exit button, with and
\* without platform calls that fail; a session whose close() failed goes on
\* delivering audio.
NextCleanup ==
    \/ \E s \in Slots, d \in Durations : OnNpcAudio(s, d, "ok")
    \/ \E b \in Slots, pl \in {"ok", "null"} : SpeechResolved(b, 1, pl)
    \/ \E c \in Slots : CtxResumed(c)
    \/ \E c \in Slots : Tick(c)
    \/ \E src \in audioSourcesRef : SourceEnded(src)
    \/ StoppedSourceEnded
    \/ handleMicToggle
    \/ handleExitToStreetView
    \/ \E fails \in (SUBSET Steps) \ {{}} : ExitWithFailure(fails)

SpecCleanup == InitPlayback /\ [][NextCleanup]_vars

\* Conversations from construction to their teardown, by every handler that
\* runs cleanupAudioAndSession, with the microphone and the windows of audio
\* it captures, and no transcript of them.
NextTeardown ==
    \/ ShowStreetView
    \/ HideStreetView
    \/ VisibilityEffect
    \/ handleRehearsalStartRequest(TRUE)
    \/ \E scn \in Scenarios : GenResolved(scn)
    \/ handleBeginConversation(FALSE)
    \/ \E b \in Slots : MicResolved(b, "running")
    \/ \E b \in Slots : SessionOpened(b)
    \/ \E b \in Slots : SpeechResolved(b, 1, "null")
    \/ handleEndConversation
    \/ SummResolved("incomplete")
    \/ handleExitToStreetView
    \/ handleCloseRehearsal
    \/ \E s \in Slots : OnError(s)
    \/ \E s \in Slots : OnClose(s)
    \/ handleMicToggle
    \/ \E p \in Slots : OnAudioProcess(p)

SpecTeardown == Init /\ [][NextTeardown]_vars

\* Image requests across rehearsals: the NPC's directives in one Active
\* conversation, the exit from it, and a new rehearsal begun while a
\* generateImage call of the old one may still be in flight.
NextImageExit ==
    \/ \E s \in Slots : OnTranscriptUpdate(s, "npc", Directive)
    \/ ImageDirectiveEffect
    \/ \E i \in 1..MaxEntries, ok \in BOOLEAN : ImageResolved(i, ok)
    \/ \E b \in Slots : SpeechResolved(b, 1, "null")
    \/ handleExitToStreetView
    \/ handleRehearsalStartRequest(TRUE)
    \/ \E scn \in Scenarios : GenResolved(scn)
    \/ handleBeginConversation(FALSE)
    \/ \E b \in Slots : MicResolved(b, "running")
    \/ \E b \in Slots : SessionOpened(b)

SpecImageExit == InitPlayback /\ [][NextImageExit]_vars

\* The best-effort features of one Active conversation, each succeeding or
\* failing: the study card, the translation of an entry, the inactivity
\* hint, the image of a directive and the audio of the opening line.
NextBestEffort ==
    \/ handleStudyCardRequest
    \/ \E ok \in BOOLEAN : StudyCardSettled(ok)
    \/ CloseStudyCard
    \/ \E i \in 1..MaxEntries : handleShowTranslation(i)
    \/ \E text \in translatePending, ok \in BOOLEAN : TranslationSettled(text, ok)
    \/ TimerFired
    \/ HintResolved
    \/ HintRejected
    \/ HintCleared
    \/ \E s \in Slots : OnTranscriptUpdate(s, "npc", Directive)
    \/ ImageDirectiveEffect
    \/ \E i \in 1..MaxEntries, ok \in BOOLEAN : ImageResolved(i, ok)
    \/ \E b \in Slots, pl \in {"null", "bad"} : SpeechResolved(b, 1, pl)
    \/ handleMicToggle

SpecBestEffort == InitPlayback /\ [][NextBestEffort]_vars

\* ------------------------------------------------------------------- codec
\* the two bytes of a 16-bit sample, as an unsigned word
Words == 0..65535

\* new Int16Array(data.buffer): the word read as a signed 16-bit integer
Int16Of(w) == IF w >= 32768 THEN w - 65536 ELSE w

\* new Uint8Array(int16.buffer): the bytes of a signed 16-bit integer
WordOf(x) == x % 65536

\* a decoder that scales by the largest positive sample
DecodeBy32767(w) == [num |-> Int16Of(w), den |-> 32767]

\* channelData[i] = dataInt16[i] / 32768.0 of decodeAudioData: the float as
\* the fraction num / den (exact in a Float32Array: 16 significant bits)
decodeSample(w) == [num |-> Int16Of(w), den |-> 32768]

\* the integer part of n / d, rounded toward zero
TruncToZero(n, d) == IF n >= 0 THEN n \div d ELSE -((-n) \div d)

\* the store into an Int16Array: the fraction is dropped and the integer
\* wraps modulo 2^16
ToInt16(v) == Int16Of(v % 65536)

\* int16[i] = data[i] * 32768 of createBlob
quantize(f) == ToInt16(TruncToZero(f.num * 32768, f.den))

\* decodeAudioData on the sample in the codec
DecodeSample ==
    /\ codec.stage = "pcm"
    /\ codec' = [codec EXCEPT !.stage = "float",
                              !.num = decodeSample(codec.word).num,
                              !.den = decodeSample(codec.word).den]
    /\ UNCHANGED <<uiVars, refVars, worldVars, taskVars, histVars, hint,
                   inactivityTimerRef, timeouts, hintPending, imagePending, run, sentTo,
                   translation, translatePending>>

\* createBlob on the float in the codec
EncodeSample ==
    /\ codec.stage = "float"
    /\ codec' = [codec EXCEPT !.stage = "encoded",
                              !.out = WordOf(quantize([num |-> codec.num,
                                                       den |-> codec.den]))]
    /\ UNCHANGED <<uiVars, refVars, worldVars, taskVars, histVars, hint,
                   inactivityTimerRef, timeouts, hintPending, imagePending, run, sentTo,
                   translation, translatePending>>

\* The codec alone, in the application as constructed: every 16-bit sample
\* is decoded as decodeAudioData does and encoded again as createBlob does.
InitCodec ==
    /\ status = "Idle"
    /\ scenario = "none"
    /\ transcript = <<>>
    /\ result = "none"
    /\ error = "none"
    /\ isNpcSpeaking = FALSE
    /\ isRecording = FALSE
    /\ studyCardHint = FALSE
    /\ isStreetViewVisible = FALSE
    /\ liveSessionRef = Null
    /\ localStreamRef = Null
    /\ mediaStreamSourceRef = Null
    /\ scriptProcessorRef = Null
    /\ inputAudioContextRef = Null
    /\ outputAudioContextRef = Null
    /\ nextStartTimeRef = 0
    /\ audioSourcesRef = {}
    /\ openSessions = {}
    /\ openStreams = {}
    /\ openInCtx = {}
    /\ outCtx = [c \in Slots |-> "none"]
    /\ ctxTime = [c \in Slots |-> 0]
    /\ begin = [b \in Slots |-> NoBegin]
    /\ genPending = 0
    /\ similarPending = 0
    /\ summPending = 0
    /\ studyPending = 0
    /\ replayPending = 0
    /\ resumeQueue = <<>>
    /\ stoppedPending = 0
    /\ arrivals = 0
    /\ sched = <<>>
    /\ ended = NoneEnded
    /\ hint = "null"
    /\ inactivityTimerRef = IF Quiet THEN "pending" ELSE "null"
    /\ timeouts = IF inactivityTimerRef = "pending" THEN 1 ELSE 0
    /\ hintPending = 0
    /\ imagePending = {}
    /\ run = NoRun
    /\ sentTo = Null
    /\ translation = NoTranslation
    /\ translatePending = {}
    /\ codec \in {[NoSample EXCEPT !.stage = "pcm", !.word = w] : w \in Words}

NextCodec == DecodeSample \/ EncodeSample

SpecCodec == InitCodec /\ [][NextCodec]_vars

\* The samples a microphone delivers: floats in [-1, 1], here every multiple
\* of half a quantization step, with the two ends of the range.
MicSamples ==
    {[num |-> n, den |-> 65536] : n \in -65535..65535}
    \cup {[num |-> -32768, den |-> 32768], [num |-> 32768, den |-> 32768]}

\* createBlob alone, in the application as constructed: every microphone
\* sample is quantized as createBlob does.
InitBlob ==
    /\ status = "Idle"
    /\ scenario = "none"
    /\ transcript = <<>>
    /\ result = "none"
    /\ error = "none"
    /\ isNpcSpeaking = FALSE
    /\ isRecording = FALSE
    /\ studyCardHint = FALSE
    /\ isStreetViewVisible = FALSE
    /\ liveSessionRef = Null
    /\ localStreamRef = Null
    /\ mediaStreamSourceRef = Null
    /\ scriptProcessorRef = Null
    /\ inputAudioContextRef = Null
    /\ outputAudioContextRef = Null
    /\ nextStartTimeRef = 0
    /\ audioSourcesRef = {}
    /\ openSessions = {}
    /\ openStreams = {}
    /\ openInCtx = {}
    /\ outCtx = [c \in Slots |-> "none"]
    /\ ctxTime = [c \in Slots |-> 0]
    /\ begin = [b \in Slots |-> NoBegin]
    /\ genPending = 0
    /\ similarPending = 0
    /\ summPending = 0
    /\ studyPending = 0
    /\ replayPending = 0
    /\ resumeQueue = <<>>
    /\ stoppedPending = 0
    /\ arrivals = 0
    /\ sched = <<>>
    /\ ended = NoneEnded
    /\ hint = "null"
    /\ inactivityTimerRef = IF Quiet THEN "pending" ELSE "null"
    /\ timeouts = IF inactivityTimerRef = "pending" THEN 1 ELSE 0
    /\ hintPending = 0
    /\ imagePending = {}
    /\ run = NoRun
    /\ sentTo = Null
    /\ translation = NoTranslation
    /\ translatePending = {}
    /\ codec \in {[NoSample EXCEPT !.stage = "float", !.num = f.num,
                                    !.den = f.den] : f \in MicSamples}

NextBlob == EncodeSample

SpecBlob == InitBlob /\ [][NextBlob]_vars

\* ------------------------------------------------------------- properties
\* no session, stream, capture node or audio context is open or referenced
Released ==
    /\ openSessions = {}
    /\ openStreams = {}
    /\ openInCtx = {}
    /\ \A c \in Slots : outCtx[c] = "none"
    /\ Refs = {Null}

\* a step of one of the handlers that run cleanupAudioAndSession
Teardown ==
    \/ handleExitToStreetView
    \/ handleCloseRehearsal
    \/ VisibilityEffect
    \/ status # "Idle" /\ HideStreetView
    \/ handleEndConversation
    \/ \E s \in Slots : OnError(s)
    \/ \E s \in Slots : OnClose(s)

\* C1: whenever status is Idle, no session, microphone stream, capture node
\* or input/output audio context is open.
C1_IdleIsReleased == status = "Idle" => Released

\* C2: at most one session and one capture pipeline are open, and they are
\* the ones the refs hold: nothing opened earlier is left open unreferenced.
C2_OneSessionOnePipeline ==
    /\ openSessions \subseteq {liveSessionRef}
    /\ openStreams \subseteq {localStreamRef}
    /\ openInCtx \subseteq {inputAudioContextRef}

\* C3: whenever status is Error, the session, the stream, the capture nodes
\* and both audio contexts are released.
C3_ErrorIsReleased == status = "Error" => Released

\* C4: a remote close of the session while status is Active does not leave
\* status Active.
C4_RemoteCloseLeavesActive ==
    [][\A s \in Slots : (status = "Active" /\ OnClose(s)) => status' # "Active"]_vars

\* C5: once handleEndConversation has asked for a summary, nothing that was
\* open when it was called (no session, stream or audio context of the
\* conversation it ended) is open, whatever becomes of the request.
C5_EndedConversationIsClosed ==
    /\ ended.sessions \cap openSessions = {}
    /\ ended.streams \cap openStreams = {}
    /\ ended.inCtx \cap openInCtx = {}
    /\ \A c \in ended.outCtx : outCtx[c] = "none"

\* the edges of the state machine, as C6 lists them
Edges ==
    {<<"Idle", "Generating">>, <<"Generating", "Briefing">>,
     <<"Generating", "Error">>, <<"Briefing", "Ready">>,
     <<"Ready", "Active">>, <<"Ready", "Error">>,
     <<"Active", "Summarizing">>, <<"Summarizing", "PausedForFeedback">>,
     <<"Summarizing", "Error">>, <<"PausedForFeedback", "Ready">>,
     <<"PausedForFeedback", "Generating">>}
    \cup {<<st, "Idle">> : st \in Statuses \ {"Idle"}}

\* C6: every change of status is an edge of the state machine.  A handler
\* that passes through Generating within one task (the location is unusable)
\* has taken the two edges Idle->Generating->Error.
C6_StatusFollowsEdges ==
    [][status' # status =>
          \/ <<status, status'>> \in Edges
          \/ handleRehearsalStartRequest(FALSE)]_vars

\* C7: exit and close leave status Idle, scenario, result, error and study
\* card null, the transcript empty, both flags false and every resource
\* released.
C7_ExitAndCloseReleaseAll ==
    [][(\/ handleExitToStreetView
        \/ handleCloseRehearsal
        \/ VisibilityEffect
        \/ status # "Idle" /\ HideStreetView) =>
          /\ status' = "Idle"
          /\ scenario' = "none"
          /\ transcript' = <<>>
          /\ result' = "none"
          /\ error' = "none"
          /\ ~studyCardHint'
          /\ ~isRecording'
          /\ ~isNpcSpeaking'
          /\ Released']_vars

\* C8: isNpcSpeaking is true exactly when audioSourcesRef is not empty.
C8_SpeakingIffSources == isNpcSpeaking <=> audioSourcesRef # {}

\* C9: on one output context the chunks are scheduled in the order in which
\* they were handed to playAudioChunk, and each starts no earlier than the
\* chunk scheduled before it ends.
C9_ScheduledInOrderNoOverlap ==
    \A i, j \in 1..Len(sched) :
        (i < j /\ sched[i].ctx = sched[j].ctx) =>
            /\ sched[i].arr < sched[j].arr
            /\ sched[j].start >= sched[i].start + sched[i].dur

\* C9 happens: two chunks were suspended at resume() on one context together
\* and both have been scheduled.
C9_TwoWaitingChunksScheduled ==
    /\ Len(sched) = 2
    /\ sched[1].ctx = sched[2].ctx
    /\ sched[1].waited /\ sched[2].waited

\* C10 as stated: teardown stops every source, empties the set, resets
\* nextStartTime to 0, and a further teardown changes nothing.
C10_StopAllResetsNextStart ==
    [][Teardown =>
          /\ audioSourcesRef' = {}
          /\ stoppedPending' = stoppedPending + Cardinality(audioSourcesRef)
          /\ nextStartTimeRef' = 0
          /\ cleanupAudioAndSession(Cur)' = Cur']_vars

\* C10: teardown stops every source and empties the set, and leaves
\* nextStartTime as it was; a further teardown changes nothing;
\* handleBeginConversation resets nextStartTime to 0 when it creates the
\* next output context.
C10_StopAllKeepsNextStart ==
    [][/\ Teardown =>
            /\ audioSourcesRef' = {}
            /\ stoppedPending' = stoppedPending + Cardinality(audioSourcesRef)
            /\ nextStartTimeRef' = nextStartTimeRef
            /\ cleanupAudioAndSession(Cur)' = Cur'
       /\ (\E b \in Slots, st \in {"suspended", "running"} : MicResolved(b, st))
            => nextStartTimeRef' = 0]_vars

\* C10 happens: teardown has stopped a playing source after chunks had moved
\* nextStartTime off 0.
C10_StoppedWithNextStartSet ==
    /\ stoppedPending > 0
    /\ audioSourcesRef = {}
    /\ nextStartTimeRef > 0

\* a step in which playAudioChunk is called with a payload of kind pl
ChunkStep(pl) ==
    \E d \in Durations :
        \/ \E s \in Slots : OnNpcAudio(s, d, pl)
        \/ \E b \in Slots : SpeechResolved(b, d, pl)
        \/ ReplayResolved(d, pl)

\* the calls suspended at resume() on context c whose payload decodes
Decodable(c) ==
    SelectSeq(resumeQueue, LAMBDA e : e.ctx = c /\ e.payload = "ok")

\* C11: a chunk that does not decode changes neither nextStartTime nor the
\* active set nor the schedule, and no error leaves playAudioChunk (the
\* opening line's catch does not run); a valid chunk is scheduled and its
\* source added whatever came before it, at once on a running context and
\* when the context starts running otherwise.
C11_BadChunkIsSkipped ==
    [][/\ ChunkStep("bad") =>
            /\ nextStartTimeRef' = nextStartTimeRef
            /\ audioSourcesRef' = audioSourcesRef
            /\ sched' = sched
       /\ (\E b \in Slots, d \in Durations : SpeechResolved(b, d, "bad"))
            => isNpcSpeaking' = isNpcSpeaking
       /\ (/\ ChunkStep("ok")
           /\ outputAudioContextRef # Null
           /\ outCtx[outputAudioContextRef] = "running") =>
            /\ Len(sched') = Len(sched) + 1
            /\ sched'[Len(sched')].arr = arrivals'
            /\ Cardinality(audioSourcesRef') = Cardinality(audioSourcesRef) + 1
       /\ \A c \in Slots : CtxResumed(c) =>
            /\ Len(sched') = Len(sched) + Len(Decodable(c))
            /\ \A i \in 1..Len(Decodable(c)) :
                  sched'[Len(sched) + i].arr = Decodable(c)[i].arr]_vars

\* C11 happens: two chunks were handed to playAudioChunk, nothing waits, and
\* only the second is in the schedule (in SpecChunks the first found its
\* context, so its decode failed).
C11_ValidChunkAfterBadScheduled ==
    /\ arrivals = 2
    /\ resumeQueue = <<>>
    /\ Len(sched) = 1
    /\ sched[1].arr = 2

\* a fragment of spk arriving on tr starts a new entry
Boundary(tr, spk) ==
    Len(tr) = 0 \/ tr[Len(tr)].isFinal \/ tr[Len(tr)].speaker # spk

RECURSIVE Concat(_)
\* the texts of frags joined in order
Concat(frags) ==
    IF frags = <<>> THEN <<>> ELSE Head(frags) \o Concat(Tail(frags))

C13_TurnCompleteFinalizesAll ==
    [][(\E s \in Slots : OnTurnComplete(s)) =>
          /\ Len(transcript') = Len(transcript)
          /\ \A i \in 1..Len(transcript) :
                /\ transcript'[i].isFinal
                /\ transcript'[i].speaker = transcript[i].speaker
                /\ transcript'[i].text = transcript[i].text
                /\ transcript'[i].imageUrl = transcript[i].imageUrl
          /\ onTurnComplete(transcript') = transcript']_vars

\* C13 happens: entries that were made after the initial ones (a third
\* entry, a merged text) are all final
C13_ThreeEntriesFinalized ==
    /\ Len(transcript) = MaxEntries
    /\ \A i \in 1..Len(transcript) : transcript[i].isFinal
    /\ \E i \in 1..Len(transcript) : Len(transcript[i].text) > 1

\* C14: a fragment is merged into the last entry when that entry is of the
\* same speaker and not final, and only the text of that entry changes; in
\* every other case (empty transcript, last entry final or of the other
\* speaker) the fragment is one new entry after the unchanged old ones.
C14_MergeOnlyIntoOpenEntry ==
    [][\A s \in Slots, spk \in Speakers, f \in Tokens :
          OnTranscriptUpdate(s, spk, f) =>
            LET n == Len(transcript) IN
            /\ \A i \in 1..(n - 1) : transcript'[i] = transcript[i]
            /\ IF n > 0 /\ transcript[n].speaker = spk /\ ~transcript[n].isFinal
               THEN /\ Len(transcript') = n
                    /\ transcript'[n] =
                         [transcript[n] EXCEPT !.text = @ \o <<f>>]
               ELSE /\ Len(transcript') = n + 1
                    /\ (n > 0 => transcript'[n] = transcript[n])
                    /\ transcript'[n + 1] = Fragment(spk, f)]_vars

\* C14 happens: a fragment arrived after a final entry of its own speaker
\* and is a new entry
C14_AppendedAfterFinalOfSameSpeaker ==
    /\ Len(run.frags) = 1
    /\ Len(transcript) > 1
    /\ transcript[Len(transcript) - 1].isFinal
    /\ transcript[Len(transcript) - 1].speaker = run.speaker
    /\ transcript[Len(transcript)] = Fragment(run.speaker, run.frags[1][1])

\* text is a proper start of text2
Grew(text, text2) ==
    Len(text2) > Len(text) /\ SubSeq(text2, 1, Len(text)) = text

\* text2 is text without its first directive
DirectiveRemoved(text, text2) ==
    \E k \in 1..Len(text) :
        /\ text[k] = Directive
        /\ \A j \in 1..(k - 1) : text[j] # Directive
        /\ text2 = SubSeq(text, 1, k - 1) \o SubSeq(text, k + 1, Len(text))

\* C15 as stated: an entry that is final keeps its place, its speaker and
\* its text in every later step.
C15_FinalEntryFrozen ==
    [][\A i \in 1..Len(transcript) :
          transcript[i].isFinal =>
            /\ i <= Len(transcript')
            /\ transcript'[i].speaker = transcript[i].speaker
            /\ transcript'[i].text = transcript[i].text]_vars

\* C15, amended: an entry that is final keeps its place, its speaker and
\* its finality; its text changes only when it is the last entry and the
\* image effect takes the directive out of it, setting its image reference.
\* No entry but the last changes its text, and the last one, when it is not
\* final, only grows or loses its directive.
C15_FinalEntryFrozenButDirective ==
    [][\A i \in 1..Len(transcript) :
          /\ transcript[i].isFinal =>
               /\ i <= Len(transcript')
               /\ transcript'[i].speaker = transcript[i].speaker
               /\ transcript'[i].isFinal
               /\ \/ transcript'[i].text = transcript[i].text
                  \/ /\ ImageDirectiveEffect
                     /\ i = Len(transcript)
                     /\ transcript[i].imageUrl = "undefined"
                     /\ transcript'[i].imageUrl = "loading"
                     /\ DirectiveRemoved(transcript[i].text,
                                         transcript'[i].text)
          /\ (i <= Len(transcript') /\ ~transcript[i].isFinal
                /\ transcript'[i].text # transcript[i].text) =>
               /\ i = Len(transcript)
               /\ \/ Grew(transcript[i].text, transcript'[i].text)
                  \/ DirectiveRemoved(transcript[i].text,
                                      transcript'[i].text)]_vars

\* C15 happens: the last entry is final, has text before a directive and no
\* image reference yet, so the image effect has its text to change
C15_DirectiveInFinalEntry ==
    /\ ImageEffectPending
    /\ transcript[Len(transcript)].isFinal
    /\ Len(transcript[Len(transcript)].text) > 1

\* C16: when the handling of the opening line ends (generateSpeech has
\* settled and playAudioChunk, if called, has returned or thrown) in an
\* Active conversation with no source scheduled and no call waiting, so that
\* no onended will come, isNpcSpeaking is false.
C16_OpeningLineFlagCleared ==
    [][\A b \in Slots :
          (/\ begin[b].pc \in {"speech", "play"}
           /\ begin'[b].pc = "none"
           /\ status' = "Active"
           /\ audioSourcesRef' = {}
           /\ resumeQueue' = <<>>) => ~isNpcSpeaking']_vars

C18_StaleHintIgnored ==
    [][HintResolved => (hint' # "null" => Quiet')]_vars

\* C19, step by step: Try Similar on the summary of an ended conversation
\* empties the transcript and the result, keeps the scenario and waits in
\* Generating; the failure of its request sets Error with a message and
\* keeps all three as they are; from Error, Acknowledge and Exit both give
\* Idle with scenario, transcript, result and error cleared.
C19_SimilarFailsThenIdle ==
    [][/\ handleTrySimilarScenario =>
            /\ status' = "Generating"
            /\ transcript' = <<>>
            /\ result' = "none"
            /\ scenario' = scenario /\ scenario # "none"
       /\ SimilarFailed =>
            /\ status' = "Error"
            /\ error' # "none"
            /\ transcript' = transcript
            /\ result' = result
            /\ scenario' = scenario
       /\ (status = "Error" /\ (handleCloseRehearsal \/ handleExitToStreetView))
            => /\ status' = "Idle"
               /\ scenario' = "none"
               /\ transcript' = <<>>
               /\ result' = "none"
               /\ error' = "none"]_vars

\* C19 happens: after a conversation that was ended and summarized, Try
\* Similar has failed: Error with the scenario held and the transcript and
\* the result emptied
C19_ErrorAfterTrySimilar ==
    /\ status = "Error"
    /\ error # "none"
    /\ scenario # "none"
    /\ transcript = <<>>
    /\ result = "none"
    /\ ended.sessions # {}
    /\ similarPending = 0

\* C20: handleEndConversation with no session and no microphone stream
\* open, and none referenced, sets no error and leaves every reference
\* null; with a transcript it asks for the summary and the status is
\* Summarizing, with an empty transcript it asks for none and everything is
\* reset to Idle with the street view hidden.
C20_EndWithNothingOpen ==
    [][(/\ handleEndConversation
        /\ liveSessionRef = Null /\ localStreamRef = Null
        /\ openSessions = {} /\ openStreams = {})
          => /\ status' # "Error"
             /\ error' = (IF transcript # <<>> THEN error ELSE "none")
             /\ Refs' = {Null}
             /\ openSessions' = {} /\ openStreams' = {}
             /\ IF transcript # <<>>
                THEN /\ summPending' = summPending + 1
                     /\ status' = "Summarizing"
                     /\ scenario' = scenario
                     /\ transcript' = transcript
                ELSE /\ summPending' = summPending
                     /\ status' = "Idle"
                     /\ scenario' = "none"
                     /\ transcript' = <<>>
                     /\ result' = "none"
                     /\ studyCardHint' = FALSE
                     /\ ~isStreetViewVisible']_vars

\* C20 happens: a summary was asked for when no session, stream or context
\* was open
C20_SummarizingWithNothingOpen ==
    /\ status = "Summarizing"
    /\ summPending = 1
    /\ ended = NoneEnded
    /\ liveSessionRef = Null
    /\ localStreamRef = Null

\* C21: Continue Task sets Ready and keeps the transcript; the
\* continuations of that call (getUserMedia resolved, startConversation
\* resolved) keep it too, set Active, and neither put the opening line in
\* the transcript, nor raise isNpcSpeaking, nor ask for its speech.  Begin
\* Conversation leaves an empty transcript.
C21_ContinueKeepsTranscript ==
    [][/\ handleBeginConversation(TRUE) =>
            status' = "Ready" /\ transcript' = transcript
       /\ handleBeginConversation(FALSE) =>
            status' = "Ready" /\ transcript' = <<>>
       /\ \A b \in Slots :
            /\ (begin[b].isContinuing
                  /\ \E st \in {"suspended", "running"} : MicResolved(b, st))
                 => transcript' = transcript
            /\ (begin[b].isContinuing /\ SessionOpened(b)) =>
                 /\ status' = "Active"
                 /\ transcript' = transcript
                 /\ isNpcSpeaking' = isNpcSpeaking
                 /\ begin'[b].pc # "speech"]_vars

\* C21 happens: a Continue Task of an NPC-first scenario waits in Ready with
\* the opening line of the first conversation still in the transcript
C21_ContinuingWithTranscript ==
    /\ status = "Ready"
    /\ scenario = "npcFirst"
    /\ transcript # <<>>
    /\ \E b \in Slots : begin[b].isContinuing /\ begin[b].pc = "session"

\* the resources whose release call is not among fails are released
ReleasedBut(fails) ==
    /\ "session" \notin fails => openSessions = {}
    /\ "tracks" \notin fails => openStreams = {}
    /\ "input" \notin fails => openInCtx = {}
    /\ "output" \notin fails => \A c \in Slots : outCtx[c] = "none"

\* C22: every teardown step of cleanupAudioAndSession is attempted even if
\* another one fails: after an Exit in which some platform calls fail, every
\* handle is null, every resource whose own release did not fail is
\* released, the recording and speaking flags are off, and the failure has
\* not left the handler (status is Idle).
C22_EveryStepAttempted ==
    [][\A fails \in (SUBSET Steps) \ {{}} :
          ExitWithFailure(fails) =>
              /\ Refs' = {Null}
              /\ audioSourcesRef' = {}
              /\ ReleasedBut(fails)'
              /\ ~isRecording' /\ ~isNpcSpeaking'
              /\ status' = "Idle"]_vars

\* C23: cleanupAudioAndSession is idempotent and safe with nothing open.  On
\* the resources before and after every step a second call changes nothing
\* the first one left; with no handle held and no source playing a call only
\* clears the two flags; and close() is invoked at most once per opened
\* session: a teardown that finds a session handle closes that session and
\* drops the handle, and the handle is only ever set to a session that the
\* same step opens.
C23_CleanupIdempotent ==
    [][/\ \A r \in {Cur, Cur'} :
            /\ cleanupAudioAndSession(cleanupAudioAndSession(r))
                 = cleanupAudioAndSession(r)
            /\ ({r.live, r.stream, r.source, r.proc, r.inRef, r.outRef}
                   = {Null} /\ r.sources = {}) =>
                 cleanupAudioAndSession(r)
                   = [r EXCEPT !.isRecording = FALSE, !.isNpcSpeaking = FALSE]
       /\ (Teardown /\ liveSessionRef # Null) =>
            /\ liveSessionRef' = Null
            /\ liveSessionRef \notin openSessions'
       /\ liveSessionRef' \notin {liveSessionRef, Null} =>
            /\ liveSessionRef' \notin openSessions
            /\ liveSessionRef' \in openSessions']_vars

\* C23 witness: the conversation was ended (first teardown) and the user
\* left while the summary was pending (second teardown, nothing open)
C23_ExitedWhileSummarizing ==
    /\ status = "Idle" /\ summPending > 0
    /\ Refs = {Null} /\ openSessions = {}

\* C24: whenever street view becomes not visible while status is not Idle,
\* in any status and with any call pending, the step (the listener's render
\* and the visibility effect it runs) leaves status Idle, scenario, result
\* and error null, the transcript empty and every resource released.
C24_HiddenForcesIdle ==
    [][((status # "Idle" /\ HideStreetView) \/ VisibilityEffect) =>
          /\ ~isStreetViewVisible'
          /\ status' = "Idle"
          /\ scenario' = "none" /\ transcript' = <<>>
          /\ result' = "none" /\ error' = "none"
          /\ Released']_vars

\* C25: recording is on only during an active conversation.  In every state
\* isRecording implies status Active, a live session behind liveSessionRef
\* and an open capture pipeline behind the stream, node and input context
\* refs.
C25_RecordingOnlyWhenActive ==
    isRecording =>
        /\ status = "Active"
        /\ liveSessionRef # Null /\ liveSessionRef \in openSessions
        /\ localStreamRef # Null /\ localStreamRef \in openStreams
        /\ scriptProcessorRef # Null /\ mediaStreamSourceRef # Null
        /\ inputAudioContextRef # Null /\ inputAudioContextRef \in openInCtx

\* C26: a captured window is forwarded only to the session whose handle is
\* held when the callback runs, and that session is open (never one that a
\* teardown has closed); with no handle the window is dropped and nothing
\* else changes.
C26_SendOnlyToLiveSession ==
    [][\A p \in Slots : OnAudioProcess(p) =>
          /\ sentTo' = liveSessionRef
          /\ sentTo' # Null => sentTo' \in openSessions
          /\ UNCHANGED <<uiVars, refVars, worldVars, taskVars>>]_vars

\* C26 witness: a window was sent while recording in an Active conversation
C26_WindowSent ==
    /\ sentTo # Null /\ sentTo = liveSessionRef
    /\ status = "Active" /\ isRecording

\* C27: an image directive triggers at most one generateImage request for
\* its entry.  A request is issued only by the image effect, only for a last
\* entry whose image reference is undefined and for which no request is
\* pending, and the same step sets the reference to loading; a reference
\* that is not undefined never becomes undefined again, whatever fragments,
\* turn-completes and renders follow.
C27_OneRequestPerEntry ==
    [][/\ ImageDirectiveEffect =>
            /\ Len(transcript) \notin imagePending
            /\ transcript[Len(transcript)].imageUrl = "undefined"
            /\ transcript'[Len(transcript)].imageUrl = "loading"
            /\ imagePending' = imagePending \cup {Len(transcript)}
       /\ ~(imagePending' \subseteq imagePending) => ImageDirectiveEffect
       /\ \A i \in 1..Len(transcript) :
            transcript[i].imageUrl # "undefined" =>
                /\ i <= Len(transcript')
                /\ transcript'[i].imageUrl # "undefined"]_vars

\* C27 witness: a further directive has arrived in the last entry while its
\* image is loading or attached, and no second request is made for it
C27_SecondDirectiveNoRequest ==
    /\ Len(transcript) > 0
    /\ transcript[Len(transcript)].speaker = "npc"
    /\ transcript[Len(transcript)].imageUrl \in {"loading", "url", "error"}
    /\ HasDirective(transcript[Len(transcript)].text)
    /\ ~ImageEffectPending

\* C28: the result of an image request is attached only to the entry whose
\* directive triggered it, which the effect marked as loading; it is never
\* attached to an entry of a transcript that replaced the one the request
\* was made for.  So a resolution that changes an entry changes one whose
\* image reference is loading.
C28_ResultOnlyOnRequestingEntry ==
    [][\A i \in 1..MaxEntries, ok \in BOOLEAN :
          (ImageResolved(i, ok) /\ transcript' # transcript) =>
              transcript[i].imageUrl = "loading"]_vars

\* status, transcript, session and recording state are as before the step
Undisturbed ==
    /\ status' = status
    /\ liveSessionRef' = liveSessionRef
    /\ openSessions' = openSessions
    /\ openStreams' = openStreams /\ openInCtx' = openInCtx
    /\ isRecording' = isRecording

\* C29: a failure of a best-effort feature changes neither status nor the
\* transcript, the session handle, the session or the recording state, and
\* leaves the feature's own state as it was: a rejected generateHint the
\* hint, a rejected generateStudyCardHint the study card, a rejected
\* translateText the translation, an opening line without playable audio
\* the playback sources; a failed generateImage changes in the transcript
\* only the image reference of its entry, to 'error'.
C29_BestEffortFailuresContained ==
    [][/\ HintRejected => Undisturbed /\ transcript' = transcript /\ hint' = hint
       /\ StudyCardSettled(FALSE) =>
            Undisturbed /\ transcript' = transcript
                        /\ studyCardHint' = studyCardHint
       /\ \A text \in translatePending :
            TranslationSettled(text, FALSE) =>
                Undisturbed /\ transcript' = transcript
                            /\ translation' = translation
       /\ \A i \in 1..MaxEntries :
            ImageResolved(i, FALSE) =>
                /\ Undisturbed
                /\ transcript' = IF i <= Len(transcript)
                                  THEN [transcript EXCEPT ![i].imageUrl = "error"]
                                  ELSE transcript
       /\ \A b \in Slots, pl \in {"null", "bad"} :
            SpeechResolved(b, 1, pl) =>
                Undisturbed /\ transcript' = transcript
                            /\ audioSourcesRef' = audioSourcesRef]_vars

\* C29 witness: an image request has failed and the conversation goes on
C29_ImageFailedStillActive ==
    /\ status = "Active" /\ liveSessionRef \in openSessions
    /\ \E i \in 1..Len(transcript) : transcript[i].imageUrl = "error"

\* C30: round trip of the audio codec.  Every 16-bit PCM sample x decodes to
\* the float x / 32768, which lies in [-1, 1), and createBlob's quantization
\* of that float gives x back, bit for bit.
C30_CodecRoundTrip ==
    /\ codec.stage \in {"float", "encoded"} =>
         /\ codec.den = 32768 /\ codec.num = Int16Of(codec.word)
         /\ -codec.den <= codec.num /\ codec.num < codec.den
    /\ codec.stage = "encoded" => codec.out = codec.word

\* C30 witness: the most negative sample has made the round trip
C30_MinSampleRoundTripped ==
    codec.stage = "encoded" /\ Int16Of(codec.word) = -32768

\* Math.round of n / d: the nearest integer, a half going up
RoundOf(n, d) ==
    LET q == n \div d
        r == n - q * d
    IN  IF 2 * r >= d THEN q + 1 ELSE q

\* a value brought into the range of a 16-bit signed integer
Clamp16(v) == IF v > 32767 THEN 32767 ELSE IF v < -32768 THEN -32768 ELSE v

\* C31: for every sample s in [-1, 1] createBlob stores round(s * 32768)
\* clamped to [-32768, 32767]; a non-negative sample, full scale included,
\* is not stored as a negative value.
C31_QuantizeRoundsAndClamps ==
    codec.stage = "encoded" =>
        /\ Int16Of(codec.out) = Clamp16(RoundOf(codec.num * 32768, codec.den))
        /\ codec.num >= 0 => Int16Of(codec.out) >= 0

\* C32: once status is Idle it stays Idle until the user asks for a new
\* rehearsal: no other step, and so no resolution or rejection of a call
\* started before the exit or close, changes status, scenario, transcript,
\* result or error.
C32_IdleUntilNewRequest ==
    [][status = "Idle" =>
          \/ \E locOk \in BOOLEAN : handleRehearsalStartRequest(locOk)
          \/ UNCHANGED <<status, scenario, transcript, result, error>>]_vars


\* the last token of a text
LastToken(text) == text[Len(text)]

\* C33: after a server message that carries turnComplete every entry is final,
\* the ones made of the fragments it carried included: its NPC fragment ends
\* the last entry, its user fragment ends the last entry of the user (the one
\* before the NPC's when the message carries both), and the entries of the
\* earlier messages keep their place, speaker and text.
C33_SameMessageFragmentFinal ==
    (run.speaker = "none" /\ run.frags # <<>>) =>
        LET user == run.frags[1][1]
            npc == run.frags[2][1]
            n == Len(transcript)
            k == IF npc = "none" THEN n ELSE n - 1
            m == Len(run.base)
        IN  /\ \A i \in 1..n : transcript[i].isFinal
            /\ n >= m
            /\ \A i \in 1..(m - 1) :
                  /\ transcript[i].speaker = run.base[i].speaker
                  /\ transcript[i].text = run.base[i].text
            /\ npc # "none" =>
                  /\ n > 0
                  /\ transcript[n].speaker = "npc"
                  /\ LastToken(transcript[n].text) = npc
            /\ user # "none" =>
                  /\ k > 0
                  /\ transcript[k].speaker = "user"
                  /\ LastToken(transcript[k].text) = user

\* C33 happens: one message carried a user fragment, an NPC fragment, an
\* audio chunk and turnComplete, and arrived while the user's entry was open
C33_WholeMessageFinalized ==
    /\ run.speaker = "none"
    /\ run.frags = <<<<"a">>, <<"b">>>>
    /\ Len(run.base) > 0
    /\ run.base[Len(run.base)].speaker = "user"
    /\ ~run.base[Len(run.base)].isFinal
    /\ Len(transcript) = Len(run.base) + 1
    /\ transcript[Len(transcript)].isFinal
    /\ isNpcSpeaking
    /\ audioSourcesRef # {}


\* C34: whenever status is Active, liveSessionRef holds a session that has
\* not been closed, the capture pipeline behind the stream, node and input
\* context refs is open, and a scenario is set.
C34_ActiveHoldsLiveSession ==
    status = "Active" =>
        /\ liveSessionRef # Null /\ liveSessionRef \in openSessions
        /\ localStreamRef # Null /\ localStreamRef \in openStreams
        /\ scriptProcessorRef # Null /\ mediaStreamSourceRef # Null
        /\ inputAudioContextRef # Null /\ inputAudioContextRef \in openInCtx
        /\ scenario # "none"


\* a source is scheduled to end after the last instant the clock reaches
BeyondHorizon ==
    \E src \in audioSourcesRef : src.start + src.dur > MaxTime

\* C35: once isNpcSpeaking is true it becomes false again, provided every
\* source ends (the clock reaches its end) and every resume() settles.
C35_SpeakingEventuallyClears ==
    isNpcSpeaking ~> (~isNpcSpeaking \/ BeyondHorizon)


\* C36: no summarization request is issued while status is Summarizing; a
\* request is issued only by the step that ends an Active conversation, one
\* per step, and a result is written only by the settling of one request.
C36_OneSummaryPerEnd ==
    [][/\ status = "Summarizing" => summPending' <= summPending
       /\ summPending' > summPending =>
             /\ status = "Active" /\ status' = "Summarizing"
             /\ summPending' = summPending + 1
       /\ (result' # result /\ result' # "none") =>
             summPending' = summPending - 1]_vars

\* C36 happens: a conversation with a session was ended, its summary is
\* awaited, and its session is closed
C36_SummaryAwaited ==
    /\ status = "Summarizing"
    /\ summPending = 1
    /\ ended.sessions # {}
    /\ openSessions = {}


\* C37: at most one scenario generation is in flight, and while one is in
\* flight a rehearsal-start request is not accepted (the button that makes
\* it is not offered: the street view is hidden or status is not Idle).
C37_SingleGenerationInFlight ==
    /\ genPending <= 1
    /\ genPending > 0 => ~(isStreetViewVisible /\ status = "Idle")


\* C38: every active source is on the open output context the ref holds; a
\* chunk handed to playAudioChunk while the ref is null changes neither the
\* active set nor nextStartTime nor the schedule; and a replay that resolves
\* while status is PausedForFeedback or Idle adds no source.
C38_NoSourceWithoutContext ==
    [][/\ \A src \in audioSourcesRef' :
             /\ outputAudioContextRef' = src.ctx
             /\ outCtx'[src.ctx] # "none"
       /\ (outputAudioContextRef = Null /\ \E pl \in Payloads : ChunkStep(pl)) =>
             /\ audioSourcesRef' = {}
             /\ nextStartTimeRef' = nextStartTimeRef
             /\ sched' = sched
       /\ (/\ status \in {"PausedForFeedback", "Idle"}
           /\ \E d \in Durations, pl \in Payloads : ReplayResolved(d, pl)) =>
             /\ audioSourcesRef' = audioSourcesRef
             /\ nextStartTimeRef' = nextStartTimeRef]_vars


\* C39: at most one timeout is armed, and it is the one inactivityTimerRef
\* holds; in every state startInactivityTimer would leave exactly one armed
\* (the earlier one is cleared first) and clearInactivityTimer none, with a
\* null ref.
C39_OneInactivityTimer ==
    /\ timeouts \in {0, 1}
    /\ timeouts = 1 <=> inactivityTimerRef = "pending"
    /\ startInactivityTimer(Timer) = [ref |-> "pending", armed |-> 1]
    /\ clearInactivityTimer(Timer) = [ref |-> "null", armed |-> 0]

\* C39 happens: a fragment arrived in a quiet conversation whose timer was
\* armed, the effect ran again, and one timeout is armed
C39_RearmedWhilePending ==
    /\ Quiet
    /\ run.speaker = "user"
    /\ Len(run.frags) = 2
    /\ inactivityTimerRef = "pending"
    /\ timeouts = 1

=============================================================================
